---- MODULE Spec2Model ----
(***************************************************************************)
(* Model of the punto telemetry pipeline: sensor producers, the aggregate  *)
(* channel, the dispatcher (main.rs), the persistence engine (buffer.rs)   *)
(* and the OBD-II driver's reply decoding and capability scan (obd.rs).    *)
(*                                                                         *)
(* The specifications share the variables:                                 *)
(*   Spec      the event bus and the persistence engine                    *)
(*   SpecScan  one OBD session's capability discovery scan                 *)
(*   SpecPid   Obd::pid applied to one serial reply                        *)
(*   SpecObd   the OBD driver thread: connect, configure, scan, poll       *)
(*   SpecSim   the OBD driver in simulation mode                           *)
(*   SpecLoss  the event bus when the OBD driver thread ends               *)
(*   SpecScale one polled parameter's reply scaled and emitted (obd.rs)    *)
(*   SpecReply one serial command of the OBD driver, byte by byte          *)
(*   SpecGps   the GPS thread's connect loop and read loop (gpsd.rs)       *)
(*   SpecFlow  the GPS thread's line buffer, byte by byte (gpsd.rs)        *)
(***************************************************************************)
EXTENDS Integers, Sequences, FiniteSets, TLC

VARIABLES
    \* ---- time and the two channels (main.rs) ----
    now,          \* whole seconds since process start (Instant::elapsed().as_secs())
    clk,          \* ::clock(), the free-running counter producers stamp events with
    rx,           \* aggregate channel: producers and buffer -> dispatcher
    rxbuf,        \* persistence channel: dispatcher -> buffer
    sentBy,       \* per producer, the events it has sent so far (history)
    \* ---- dispatcher (main.rs main) ----
    dispPc,       \* "startup" | "main" | "dead"
    tc,           \* trouble-code screen row counter of the startup loop
    received,     \* every event the dispatcher took from rx, in order (history)
    forwarded,    \* every event the dispatcher sent on txbuf, in order (history)
    \* ---- persistence engine (buffer.rs main) ----
    pcBuf,        \* "recv" | "create" | "write" | "rename" | "sync" | "unnotify" | "dead"
    buf,          \* the batch (Vec<Info>)
    elaps,        \* next flush boundary, seconds since start
    lastt,        \* t of the last persisted event
    lastc,        \* wall-clock second read when the flush started
    tries,        \* file creation attempts of the current flush
    files,        \* the output directory: sequence of files in creation order
    synced,       \* number of ::sync() calls made
    bufRecvd,     \* events taken from rxbuf since the batch was last cleared (history)
    appended,     \* every event ever pushed on the batch, in order (history)
    flushAt,      \* elapsed seconds read at the start of the latest flush, -1 if none
    prevFlushAt,  \* the same for the flush before it, -1 if none
    updNow,       \* elapsed seconds the boundary was last computed against
    lastRename,   \* "none" | "ok" | "err": outcome of the latest rename
    death,        \* "none" | "create" | "write": why the engine terminated
    padByte,      \* what the padding bytes of the batch's memory hold
    \* ---- OBD capability scan (obd.rs main) ----
    scanPc,       \* "idle" | "scan" | "patch" | "done" | "dead"
    scanC,        \* loop variable c of the scan
    cap,          \* last capability word obtained
    capa,         \* capability table, [0..MAXPIDS-1 -> BOOLEAN]
    words,        \* the [base, word] pairs obtained in this scan, in order (history)
    obdTx,        \* events the driver sent during the scan (history)
    \* ---- Obd::pid on one reply ----
    pidPc,        \* "idle" | "call" | "ret"
    pidReply,     \* what the serial line delivers: [wr, rd, s]
    pidExpected,  \* the request: [pidno, expected]
    pidResult,    \* what pid returned
    \* ---- OBD driver thread (obd.rs main, Obd::mainloop, simula) ----
    obdUp,        \* FALSE once obd::main has returned or panicked
    drvPc,        \* where obd::main stands, "idle" when the driver is not modelled
    try,          \* loop variable of the connect loop
    crash,        \* Obd.crash
    rpm,          \* Obd.rpm
    batwait,      \* mainloop's battery countdown
    iter,         \* iterations of mainloop's loop begun in this session (history)
    pollPos,      \* index in PollList of the next emit of the mainloop iteration
    stepSent,     \* the events the driver's latest step sent, in order (history)
    sentAny,      \* whether the current connection attempt sent any event (history)
    ended,        \* how the latest connection attempt that ended did so, "none"
                  \* again once a later attempt is configured (history)
    lastIo,       \* what the serial line delivered to the latest step (history)
    rpmFailed,    \* an RPM read failed since the latest crash check (history)
    simV,         \* per simulator thread: whether it was started, and its value v * 10
    \* ---- GPS thread (gpsd.rs main, flow) ----
    gpsPc,        \* "idle" | "connect" | "read" | "gaveup" | "ended"
    gpsTry,       \* loop variable of the connect loop
    gpsFails,     \* connects and reads that returned Err so far (history)
    gpsN,         \* flow's n: bytes in the buffer, in units of 256
    gpsEof,       \* the peer has closed the stream
    \* ---- the GPS thread's line buffer, byte by byte (gpsd.rs flow) ----
    flowWire,     \* the bytes the daemon has written that no read has delivered yet
    flowBuf,      \* flow's buf[0..n]
    flowGot,      \* every byte the reads of this connection delivered (history)
    flowEmitted,  \* the fields handed to each call of emit, in order (history)
    \* ---- one serial command (obd.rs Obd::cmd, Obd::get_reply) ----
    replyPc,      \* "idle" | "call" | "read" | "ret"
    rcvd,         \* get_reply's rcvd: the significant bytes read so far
    replyOdd,     \* whether get_reply has called port.read an odd number of times
    replyRes      \* at "ret", the string cmd returns

busVars  == <<now, clk, rx, rxbuf, sentBy, dispPc, tc, received, forwarded>>
bufVars  == <<pcBuf, buf, elaps, lastt, lastc, tries, files, synced, bufRecvd,
              appended, flushAt, prevFlushAt, updNow, lastRename, death, padByte>>
scanVars == <<scanPc, scanC, cap, capa, words, obdTx>>
pidVars  == <<pidPc, pidReply, pidExpected, pidResult>>
sessVars == <<crash, rpm, batwait, iter, pollPos>>
histVars == <<stepSent, sentAny, ended, lastIo, rpmFailed>>
flowVars == <<flowWire, flowBuf, flowGot, flowEmitted>>
gpsVars  == <<gpsPc, gpsTry, gpsFails, gpsN, gpsEof, flowVars>>
replyVars == <<replyPc, rcvd, replyOdd, replyRes>>
drvVars  == <<obdUp, drvPc, try, sessVars, histVars, simV, gpsVars, replyVars>>
vars     == <<busVars, bufVars, scanVars, pidVars, drvVars>>

-----------------------------------------------------------------------------
(* Program constants *)

SECONDS == 60
CREATE_RETRIES == 5
RPM == 268
MILSTAT == 257
MAXPIDS == 384
BATTERY == 385
TROUBLE == 386
CAPA == 387
RECSIZE == 12

\* The parameter identifiers of obd.rs.
THROT == 273
ELOAD == 260
SPEED == 269
AIRTEMP == 271
ECTEMP == 261
EGR == 300
EEGR == 301
BPRESS == 307
FUEL == 303
FSTATUS == 259
SFTRIM1 == 262
LFTRIM1 == 263
SFTRIM2 == 264
LFTRIM2 == 265
TIMING == 270
INTAKE == 271
MAFLOW == 272
FPRESSD == 291
FPRESSM == 290
EVAP == 302
CATA1S1 == 316
CATA2S1 == 317
CATA1S2 == 318
CATA2S2 == 319
RUNTIME == 287
MIL == 289
WARMUPS == 304

(* Bounds of the model *)

MaxEvents == 2
MaxTime == 130
TickLen == 40
MaxEarlyFails == 1

-----------------------------------------------------------------------------
(* Event model: enum Info *)

NaN == [nan |-> TRUE, v |-> 0]
F(v) == [nan |-> FALSE, v |-> v]

Usr(s) == [tag |-> "Usr", synced |-> s]
Gps(t, ts, alt, track, speed) ==
    [tag |-> "Gps", t |-> t, ts |-> ts, alt |-> alt, track |-> track, speed |-> speed]
Pos(t, lat, lon) == [tag |-> "Pos", t |-> t, lat |-> lat, lon |-> lon]
Obd(t, pid, val) ==
    [tag |-> "Obd", t |-> t, pid |-> pid, val |-> val, extra |-> 0, extra2 |-> 0]
Imu(t, mag, acc, rot) == [tag |-> "Imu", t |-> t, mag |-> mag, acc |-> acc, rot |-> rot]

Producers == {"obd", "gps", "imu"}

\* What a producer may send next, stamped with the clock reading t.
ObdEvents(t) == {Obd(t, TROUBLE, 7), Obd(t, TROUBLE, 0), Obd(t, RPM, 12000)}
GpsEvents(t) == {Gps(t, 1455840974, 120, 90, 49), Gps(t, 0, -1, -1, -1)}
PosOf(g, t)  == IF g.ts > 0 THEN Pos(t, F(45), F(9)) ELSE Pos(t, NaN, NaN)
ImuEvents(t) == {Imu(t, <<1, -2, 3>>, <<-4, 5, -6>>, <<7, -8>>)}

\* gpsd::emit sends a Gps and then the Pos of the same TPV record.
NextEvents(p, t) ==
    CASE p = "obd" -> ObdEvents(t)
      [] p = "imu" -> ImuEvents(t)
      [] p = "gps" -> IF Len(sentBy[p]) % 2 = 0
                      THEN GpsEvents(t)
                      ELSE {PosOf(sentBy[p][Len(sentBy[p])], t)}

-----------------------------------------------------------------------------------------------------------------------------------------------------
(* Record layout: the raw memory of an Info value, 24 bytes: one tag byte, *)
(* three padding bytes and 20 payload bytes, here as twelve little-endian  *)
(* 16-bit units (a 32-bit field is two of them).                           *)

W16 == 65536
NANTOP == 32760
FINTOP == 16384

Lo16(x) == x % W16
Hi16(x) == (x \div W16) % W16
\* A variant that keeps only the low half of a field.
WordLowOnly(x) == <<Lo16(x), 0>>

Word(x) == <<Lo16(x), Hi16(x)>>
Unsigned32(lo, hi) == lo + W16 * hi
Signed32(lo, hi) == IF hi >= W16 \div 2 THEN lo + W16 * (hi - W16) ELSE lo + W16 * hi
Signed16(h) == IF h >= W16 \div 2 THEN h - W16 ELSE h
\* An f64 is 8 bytes; the model keeps integral degrees, and NaN apart from them.
F64(f) == IF f.nan THEN <<0, 0, 0, NANTOP>> ELSE <<Lo16(f.v), Hi16(f.v), 0, FINTOP>>
FloatOf(h) == IF h[4] = NANTOP THEN NaN ELSE F(Signed32(h[1], h[2]))

TagOf(e) ==
    CASE e.tag = "Usr" -> 0 [] e.tag = "Gps" -> 1 [] e.tag = "Pos" -> 2
      [] e.tag = "Obd" -> 3 [] e.tag = "Imu" -> 4

\* The raw memory of one Info value; pad is whatever a padding byte holds.
Serialize(e, pad) ==
    LET head == <<TagOf(e) + 256 * pad, pad + 256 * pad>> IN
    CASE e.tag = "Gps" ->
           head \o Word(e.t) \o Word(e.ts) \o Word(e.alt) \o Word(e.track) \o Word(e.speed)
      [] e.tag = "Pos" ->
           head \o Word(e.t) \o F64(e.lat) \o F64(e.lon)
      [] e.tag = "Obd" ->
           head \o Word(e.t) \o Word(e.pid) \o Word(e.val) \o Word(e.extra) \o Word(e.extra2)
      [] e.tag = "Imu" ->
           head \o Word(e.t)
                \o <<Lo16(e.mag[1]), Lo16(e.mag[2]), Lo16(e.mag[3])>>
                \o <<Lo16(e.acc[1]), Lo16(e.acc[2]), Lo16(e.acc[3])>>
                \o <<Lo16(e.rot[1]), Lo16(e.rot[2])>>
      [] e.tag = "Usr" ->
           head \o <<(IF e.synced THEN 1 ELSE 0) + 256 * pad>>
                \o [i \in 1..9 |-> pad + 256 * pad]

\* Reading one record back, as the consumer of the files does.
Deserialize(w) ==
    LET tag == w[1] % 256 IN
    CASE tag = 1 -> Gps(Unsigned32(w[3], w[4]), Unsigned32(w[5], w[6]), Signed32(w[7], w[8]),
                        Signed32(w[9], w[10]), Signed32(w[11], w[12]))
      [] tag = 2 -> Pos(Unsigned32(w[3], w[4]), FloatOf(SubSeq(w, 5, 8)),
                        FloatOf(SubSeq(w, 9, 12)))
      [] tag = 3 -> [tag |-> "Obd", t |-> Unsigned32(w[3], w[4]),
                     pid |-> Unsigned32(w[5], w[6]), val |-> Signed32(w[7], w[8]),
                     extra |-> Signed32(w[9], w[10]), extra2 |-> Signed32(w[11], w[12])]
      [] tag = 4 -> Imu(Unsigned32(w[3], w[4]),
                        <<Signed16(w[5]), Signed16(w[6]), Signed16(w[7])>>,
                        <<Signed16(w[8]), Signed16(w[9]), Signed16(w[10])>>,
                        <<Signed16(w[11]), Signed16(w[12])>>)
      [] OTHER   -> Usr(w[3] % 256 = 1)

RECURSIVE SerializeAll(_, _)
SerializeAll(b, pad) ==
    IF b = <<>> THEN <<>> ELSE Serialize(Head(b), pad) \o SerializeAll(Tail(b), pad)

RECURSIVE Replay(_)
Replay(data) ==
    IF Len(data) < RECSIZE THEN <<>>
    ELSE <<Deserialize(SubSeq(data, 1, RECSIZE))>>
         \o Replay(SubSeq(data, RECSIZE + 1, Len(data)))

-----
(* Producers and the clock *)

\* A variant in which the process lives only while the OBD thread does.
AliveWithObd == dispPc # "dead" /\ obdUp

Alive == dispPc # "dead"

\* A producer thread stamps an event with ::clock() and sends it on tx.
Produce(p) ==
    /\ Alive
    /\ p = "obd" => obdUp
    /\ clk <= MaxEvents
    /\ \E e \in NextEvents(p, clk) :
          /\ rx' = Append(rx, e)
          /\ sentBy' = [sentBy EXCEPT ![p] = Append(@, e)]
    /\ clk' = clk + 1
    /\ UNCHANGED <<now, rxbuf, dispPc, tc, received, forwarded>>
    /\ UNCHANGED <<bufVars, scanVars, pidVars, drvVars>>

\* obd::main returns: the serial device could not be opened within its tries,
\* or the last connection attempt is over.  The thread ends; its Sender is
\* dropped, the channel stays open for the other senders.
ObdGiveUp ==
    /\ Alive
    /\ obdUp
    /\ obdUp' = FALSE
    /\ UNCHANGED <<drvPc, try, sessVars, histVars, simV, gpsVars, replyVars>>
    /\ UNCHANGED <<busVars, bufVars, scanVars, pidVars>>

\* What a later reading of the elapsed time may return, given the reading n
\* before it: the clock is monotonic.
TimeAfter(n) == {m \in n..MaxTime : (m - n) % TickLen = 0}

-----------------------------------------------------------------------------
(* Dispatcher: main.rs main *)

\* A variant in which the dispatcher keeps the notices to itself.
ForwardButUsr(q, e) == IF e.tag = "Usr" THEN q ELSE Append(q, e)

\* txbuf.send(e): the send fails, and the expect panics, once the engine is gone.
Forward(q, e) == Append(q, e)

\* A variant in which the dispatcher survives a failed send.
SendFailureIgnored == "main"

\* .expect("forward"), .expect("early send"), .expect("early msg") on a send
\* that returned Err: the main thread panics.
SendFailure == "dead"

SendToBuffer(e) ==
    IF pcBuf = "dead"
    THEN /\ dispPc' = SendFailure
         /\ UNCHANGED <<rxbuf, forwarded>>
    ELSE /\ rxbuf' = Forward(rxbuf, e)
         /\ forwarded' = Append(forwarded, e)
         /\ UNCHANGED dispPc

\* The preliminary loop, waiting for trouble codes.
DispatchStartup ==
    /\ dispPc = "startup"
    /\ rx # <<>>
    /\ LET e == Head(rx) IN
          /\ rx' = Tail(rx)
          /\ received' = Append(received, e)
          /\ IF e.tag = "Obd" /\ e.pid = TROUBLE
             THEN IF e.val = 0
                  THEN /\ dispPc' = "main"
                       /\ UNCHANGED <<tc, rxbuf, forwarded>>
                  ELSE /\ tc' = tc + 3
                       /\ SendToBuffer(Obd(e.t, e.pid, e.val))
             ELSE /\ SendToBuffer(e)
                  /\ UNCHANGED tc
    /\ UNCHANGED <<now, clk, sentBy>>
    /\ UNCHANGED <<bufVars, scanVars, pidVars, drvVars>>

\* The main polling loop: update the display, then forward.
DispatchMain ==
    /\ dispPc = "main"
    /\ rx # <<>>
    /\ LET e == Head(rx) IN
          /\ rx' = Tail(rx)
          /\ received' = Append(received, e)
          /\ SendToBuffer(e)
    /\ UNCHANGED <<now, clk, sentBy, tc>>
    /\ UNCHANGED <<bufVars, scanVars, pidVars, drvVars>>

-----------------------------------------------------------------------------
(* Persistence engine: buffer.rs main *)

PadVals == {0, 165}

\* A variant that also leaves the Imu events out.
PersistNoImu(e) == e.tag \notin {"Usr", "Imu"}

\* The match on the received event: every variant but Usr is saved.
Persistable(e) == e.tag # "Usr"

\* A variant that flushes after every event.
FlushAlways(n, el) == TRUE

\* if start.elapsed().as_secs() < elaps { continue }
FlushDue(n, el) == ~(n < el)

\* A variant that leaves the batch as it is.
NoClear(b) == b

\* buf.clear()
ClearBatch(b) == <<>>

\* A variant that advances the boundary once, without the loop.
OnceBoundary(el, n) == el + SECONDS

\* A variant that puts the boundary just above the elapsed time.
JustAboveNow(el, n) == n + 1

\* loop { elaps += SECONDS; if elaps > start.elapsed().as_secs() { break } }
RECURSIVE NextBoundary(_, _)
NextBoundary(el, n) ==
    IF el + SECONDS > n THEN el + SECONDS ELSE NextBoundary(el + SECONDS, n)

\* A variant in which a failed rename ends the engine.
RenameErrPanics == "dead"

\* Where the engine continues after a failed rename: it logs, waits, and syncs.
RenameErrPc == "sync"

\* rx.recv(), the match, and the elapsed-time test.
BufRecv ==
    /\ Alive
    /\ pcBuf = "recv"
    /\ rxbuf # <<>>
    /\ LET e == Head(rxbuf) IN
          /\ rxbuf' = Tail(rxbuf)
          /\ bufRecvd' = Append(bufRecvd, e)
          /\ IF Persistable(e)
             THEN /\ lastt' = e.t
                  /\ buf' = Append(buf, e)
                  /\ appended' = Append(appended, e)
                  /\ \E n \in TimeAfter(now) :
                        /\ now' = n
                        /\ IF FlushDue(n, elaps)
                           THEN /\ lastc' = n
                                /\ tries' = 0
                                /\ pcBuf' = "create"
                                /\ flushAt' = n
                                /\ prevFlushAt' = flushAt
                           ELSE UNCHANGED <<lastc, tries, pcBuf, flushAt, prevFlushAt>>
             ELSE \* Usr: continue, whatever the time the recv returned at
                  /\ \E n \in TimeAfter(now) : now' = n
                  /\ UNCHANGED <<lastt, buf, appended, lastc, tries, pcBuf, flushAt,
                                 prevFlushAt>>
    /\ UNCHANGED <<elaps, files, synced, updNow, lastRename, death, padByte>>
    /\ UNCHANGED <<clk, rx, sentBy, dispPc, tc, received, forwarded>>
    /\ UNCHANGED <<scanVars, pidVars, drvVars>>

\* A variant that names every attempt alike.
UniqFixed(t, k) == t

\* let uniq = lastt + tries
Uniq(t, k) == t + k

\* One attempt to create the temporary file dat.<lastc>.<uniq>.tmp.  The
\* directory may refuse any attempt; the model lets it accept again only
\* within the first MaxEarlyFails refusals of a flush.
BufCreate ==
    /\ Alive
    /\ pcBuf = "create"
    /\ tries' = tries + 1
    /\ \/ /\ tries <= MaxEarlyFails
          /\ files' = Append(files, [sec |-> lastc, uniq |-> Uniq(lastt, tries),
                                     tmp |-> TRUE, data |-> <<>>])
          /\ pcBuf' = "write"
          /\ UNCHANGED death
       \/ /\ IF tries' <= CREATE_RETRIES
             THEN UNCHANGED <<pcBuf, death>>
             ELSE pcBuf' = "dead" /\ death' = "create"
          /\ UNCHANGED files
    /\ UNCHANGED <<buf, elaps, lastt, lastc, synced, bufRecvd, appended, flushAt,
                   prevFlushAt, updNow, lastRename, padByte>>
    /\ UNCHANGED <<busVars, scanVars, pidVars, drvVars>>

\* Serialize every record, clear the batch, close the stream, move the boundary.
\* A write error panics with the records before it already in the stream.
BufWrite ==
    /\ Alive
    /\ pcBuf = "write"
    /\ \/ \E n \in TimeAfter(now) :
             /\ files' = [files EXCEPT ![Len(files)].data = SerializeAll(buf, padByte)]
             /\ buf' = ClearBatch(buf)
             /\ bufRecvd' = <<>>
             /\ now' = n
             /\ elaps' = NextBoundary(elaps, n)
             /\ updNow' = n
             /\ pcBuf' = "rename"
             /\ UNCHANGED death
       \/ \E k \in 0..(Len(buf) - 1) :
             /\ files' = [files EXCEPT ![Len(files)].data =
                                          SerializeAll(SubSeq(buf, 1, k), padByte)]
             /\ pcBuf' = "dead"
             /\ death' = "write"
             /\ UNCHANGED <<now, buf, bufRecvd, elaps, updNow>>
    /\ UNCHANGED <<lastt, lastc, tries, synced, appended, flushAt, prevFlushAt, lastRename,
                   padByte>>
    /\ UNCHANGED <<clk, rx, rxbuf, sentBy, dispPc, tc, received, forwarded>>
    /\ UNCHANGED <<scanVars, pidVars, drvVars>>

\* fs::rename(ftemp, fname); an error is printed and followed by a wait.
BufRename ==
    /\ Alive
    /\ pcBuf = "rename"
    /\ \/ /\ files' = [files EXCEPT ![Len(files)].tmp = FALSE]
          /\ lastRename' = "ok"
          /\ pcBuf' = "sync"
       \/ /\ lastRename' = "err"
          /\ pcBuf' = RenameErrPc
          /\ UNCHANGED files
    /\ UNCHANGED <<buf, elaps, lastt, lastc, tries, synced, bufRecvd, appended, flushAt,
                   prevFlushAt, updNow, death, padByte>>
    /\ UNCHANGED <<busVars, scanVars, pidVars, drvVars>>

\* A variant that announces the sync with the flag off.
NoticeOff == Usr(FALSE)

\* Info::Usr { synced: true }, sent right after ::sync()
SyncedNotice == Usr(TRUE)

\* Info::Usr { synced: false }, sent after the wait of 2377 ms
UnsyncedNotice == Usr(FALSE)

\* ::sync() and tx.send(Usr { synced: true }).
BufSync ==
    /\ Alive
    /\ pcBuf = "sync"
    /\ synced' = synced + 1
    /\ rx' = Append(rx, SyncedNotice)
    /\ pcBuf' = "unnotify"
    /\ UNCHANGED <<buf, elaps, lastt, lastc, tries, files, bufRecvd, appended, flushAt,
                   prevFlushAt, updNow, lastRename, death, padByte>>
    /\ UNCHANGED <<now, clk, rxbuf, sentBy, dispPc, tc, received, forwarded>>
    /\ UNCHANGED <<scanVars, pidVars, drvVars>>

\* After the wait, tx.send(Usr { synced: false }) and back to rx.recv().
BufUnnotify ==
    /\ Alive
    /\ pcBuf = "unnotify"
    /\ rx' = Append(rx, UnsyncedNotice)
    /\ pcBuf' = "recv"
    /\ UNCHANGED <<buf, elaps, lastt, lastc, tries, files, synced, bufRecvd, appended,
                   flushAt, prevFlushAt, updNow, lastRename, death, padByte>>
    /\ UNCHANGED <<now, clk, rxbuf, sentBy, dispPc, tc, received, forwarded>>
    /\ UNCHANGED <<scanVars, pidVars, drvVars>>

-----------------------------------------------------------------------------
(* Idle values of the parts a specification does not run *)

ScanIdle ==
    /\ scanPc = "idle"
    /\ scanC = 0
    /\ cap = [hi |-> 0, lo |-> 0]
    /\ capa = [a \in 0..(MAXPIDS - 1) |-> FALSE]
    /\ words = <<>>
    /\ obdTx = <<>>

PidIdle ==
    /\ pidPc = "idle"
    /\ pidReply = <<>>
    /\ pidExpected = <<>>
    /\ pidResult = <<>>

BusInit ==
    /\ now = 0
    /\ clk = 1
    /\ rx = <<>>
    /\ rxbuf = <<>>
    /\ sentBy = [p \in Producers |-> <<>>]
    /\ dispPc = "startup"
    /\ tc = 3
    /\ received = <<>>
    /\ forwarded = <<>>

BufInit ==
    /\ pcBuf = "recv"
    /\ buf = <<>>
    /\ elaps = SECONDS
    /\ lastt = 0
    /\ lastc = 0
    /\ tries = 0
    /\ files = <<>>
    /\ synced = 0
    /\ bufRecvd = <<>>
    /\ appended = <<>>
    /\ flushAt = -1
    /\ prevFlushAt = -1
    /\ updNow = 0
    /\ lastRename = "none"
    /\ death = "none"
    /\ padByte \in PadVals

-----------------------------------------------------------------------------
(* Spec: the event bus and the persistence engine *)

\* The GPS thread before it is followed.
\* No serial command is followed byte by byte.
ReplyIdle ==
    /\ replyPc = "idle"
    /\ rcvd = <<>>
    /\ replyOdd = FALSE
    /\ replyRes = <<>>

\* The GPS thread's buffer when its bytes are not followed.
FlowIdle ==
    /\ flowWire = <<>>
    /\ flowBuf = <<>>
    /\ flowGot = <<>>
    /\ flowEmitted = <<>>

GpsIdle ==
    /\ FlowIdle
    /\ gpsPc = "idle"
    /\ gpsTry = 0
    /\ gpsFails = 0
    /\ gpsN = 0
    /\ gpsEof = FALSE

\* The driver thread as the bus sees it: started, its inner state not followed.
DrvIdle ==
    /\ obdUp = TRUE
    /\ drvPc = "idle"
    /\ try = 0
    /\ crash = FALSE
    /\ rpm = 0
    /\ batwait = 0
    /\ iter = 0
    /\ pollPos = 0
    /\ stepSent = <<>>
    /\ sentAny = FALSE
    /\ ended = "none"
    /\ lastIo = <<>>
    /\ rpmFailed = FALSE
    /\ GpsIdle
    /\ ReplyIdle
    /\ simV = <<>>

Init == BusInit /\ BufInit /\ ScanIdle /\ PidIdle /\ DrvIdle

Next ==
    \/ \E p \in Producers : Produce(p)
    \/ DispatchStartup
    \/ DispatchMain
    \/ BufRecv
    \/ BufCreate
    \/ BufWrite
    \/ BufRename
    \/ BufSync
    \/ BufUnnotify

Spec == Init /\ [][Next]_vars

\* SpecLoss: the same pipeline, with an OBD driver that may end at any moment.
InitLoss == BusInit /\ BufInit /\ padByte = 0 /\ ScanIdle /\ PidIdle /\ DrvIdle
NextLoss == Next \/ ObdGiveUp
SpecLoss == InitLoss /\ [][NextLoss]_vars

-----------------------------------------------------------------------------
(* OBD-II driver: reply decoding (obd.rs, impl Obd)                        *)
(*                                                                         *)
(* A reply string is a sequence of one-character strings.  What the serial *)
(* line does for one command is a record io: wr, whether port.write        *)
(* succeeded; rd, whether get_reply returned Ok; s, the string it returned.*)
(* A u32 is kept as two 16-bit halves [hi, lo].                            *)

Ok(v)  == [kind |-> "Ok", val |-> v]
Err(m) == [kind |-> "Err", val |-> m]
Panic  == [kind |-> "Panic", val |-> "split_at"]

U32(hi, lo) == [hi |-> hi, lo |-> lo]

HexDigits == <<"0", "1", "2", "3", "4", "5", "6", "7", "8", "9",
               "A", "B", "C", "D", "E", "F">>
HexLower  == <<"0", "1", "2", "3", "4", "5", "6", "7", "8", "9",
               "a", "b", "c", "d", "e", "f">>
IsHex(ch) == \E d \in 1..16 : HexDigits[d] = ch \/ HexLower[d] = ch
DigitVal(ch) == (CHOOSE d \in 1..16 : HexDigits[d] = ch \/ HexLower[d] = ch) - 1

RECURSIVE HexNum(_)
HexNum(s) == IF s = <<>> THEN 0 ELSE 16 * HexNum(SubSeq(s, 1, Len(s) - 1)) + DigitVal(s[Len(s)])

\* u32::from_str_radix(s, 16) for the at most eight digits pid hands it.
FromStrRadix16(s) ==
    IF s = <<>> \/ \E i \in 1..Len(s) : ~IsHex(s[i])
    THEN Err("invalid pid reply format")
    ELSE LET n == Len(s)
             split == IF n > 4 THEN n - 4 ELSE 0
         IN Ok(U32(HexNum(SubSeq(s, 1, split)), HexNum(SubSeq(s, split + 1, n))))

\* format!("{:04x}\n", pid) begins with the letter a only for 0xa000..0xafff.
IsAtCommand(pidno) == pidno \div 4096 = 10

\* s.trim_matches(|c| (c < '0' && c != '.') || (c > '9')) on a reply made of
\* digits, dots and letters: letters are cut from both ends.
Keeps(ch) == ch = "." \/ (IsHex(ch) /\ DigitVal(ch) <= 9)
RECURSIVE TrimFront(_)
TrimFront(s) == IF s = <<>> \/ Keeps(Head(s)) THEN s ELSE TrimFront(Tail(s))
RECURSIVE TrimBack(_)
TrimBack(s) ==
    IF s = <<>> \/ Keeps(s[Len(s)]) THEN s ELSE TrimBack(SubSeq(s, 1, Len(s) - 1))

\* Obd::get_pid_val: write the command, fetch the reply, strip the header.
\* s.split_at(4) panics when the reply has fewer than four characters.
get_pid_val(isAt, io) ==
    IF ~io.wr THEN Err("obd write error")
    ELSE IF ~io.rd THEN Err("read error")
    ELSE IF isAt
         THEN LET t == TrimBack(TrimFront(io.s)) IN
              IF Len(t) > 0 THEN Ok(t) ELSE Err(t)
         ELSE IF io.s # <<>> /\ Head(io.s) = "4"
              THEN IF Len(io.s) < 4 THEN Panic
                   ELSE Ok(SubSeq(io.s, 5, Len(io.s)))
              ELSE Err(io.s)

\* Obd::pid: the reply must have expected*2 hex digits and fit expected bytes.
pid(pidno, expected, io) ==
    LET digits == expected * 2
        r == get_pid_val(IsAtCommand(pidno), io)
    IN IF r.kind # "Ok" THEN r
       ELSE IF Len(r.val) # digits THEN Err("invalid pid reply size")
       ELSE LET x == FromStrRadix16(r.val) IN
            IF x.kind # "Ok" THEN x
            ELSE IF \/ (expected = 1 /\ (x.val.hi > 0 \/ x.val.lo >= 256))
                    \/ (expected = 2 /\ x.val.hi > 0)
                 THEN Err("invalid pid reply value")
                 ELSE x

-----------------------------------------------------------------------------
(* SpecPid: Obd::pid applied to one reply *)

MaxReplyLen == 9

ReplyChars == {"4", "F", "G"}
ReplyStrings == UNION {[1..n -> ReplyChars] : n \in 0..MaxReplyLen}

\* What the line may do: fail the write, fail the read, or deliver a string.
PidIos ==
    {[wr |-> FALSE, rd |-> FALSE, s |-> <<>>], [wr |-> TRUE, rd |-> FALSE, s |-> <<>>]}
    \cup {[wr |-> TRUE, rd |-> TRUE, s |-> str] : str \in ReplyStrings}

\* The two reply widths the poll loop asks for, with a parameter of each.
PidRequests == {[pidno |-> RPM, expected |-> 2], [pidno |-> THROT, expected |-> 1]}

PidInit ==
    /\ pidPc = "call"
    /\ pidReply \in PidIos
    /\ \E rq \in PidRequests : pidExpected = rq
    /\ pidResult = <<>>

PidCall ==
    /\ pidPc = "call"
    /\ pidResult' = pid(pidExpected.pidno, pidExpected.expected, pidReply)
    /\ pidPc' = "ret"
    /\ UNCHANGED <<pidReply, pidExpected>>
    /\ UNCHANGED <<busVars, bufVars, scanVars, drvVars>>

BusIdle == BusInit
BufIdle == BufInit /\ padByte = 0

InitPid == BusIdle /\ BufIdle /\ ScanIdle /\ PidInit /\ DrvIdle
NextPid == PidCall
SpecPid == InitPid /\ [][NextPid]_vars

-----------------------------------------------------------------------------
(* SpecScan: the capability discovery scan of one session (obd.rs main) *)

FIRSTGROUP == 256
GROUP == 32

\* A variant that reads the word from its least significant bit.
CapaBitLsbFirst(w, idx) ==
    IF idx >= 16 THEN (w.hi \div 2^(idx - 16)) % 2 = 1 ELSE (w.lo \div 2^idx) % 2 = 1

\* ((cap >> (0x1f - idx)) & 1) == 1
CapaBit(w, idx) ==
    LET k == 31 - idx IN
    IF k >= 16 THEN (w.hi \div 2^(k - 16)) % 2 = 1 ELSE (w.lo \div 2^k) % 2 = 1

\* A variant of the loop that runs up to MAXPIDS itself.
ScanThroughMaxpids == 0..(MAXPIDS - 1)

\* for c in 0..MAXPIDS-1: the values c takes
ScanIterations == 0..(MAXPIDS - 2)

\* obd.capa[c + 1]: the entry iteration c writes
ScanIndex(c) == c + 1

\* The addresses the scan asks a bitmap for: idx == 0 && c >= 0x100.
GroupBases == {b \in FIRSTGROUP..(MAXPIDS - 1) : b % GROUP = 0}

\* A variant that leaves the table as the scan filled it.
NoPatch(table) == table

\* obd.capa[RPM] = true
PatchRpm(table) == [table EXCEPT ![RPM] = TRUE]

\* cap as isize, on the 32-bit target
AsIsize(w) == Signed32(w.lo, w.hi)

Hex4(n) == <<HexDigits[((n \div 4096) % 16) + 1], HexDigits[((n \div 256) % 16) + 1],
             HexDigits[((n \div 16) % 16) + 1], HexDigits[(n % 16) + 1]>>

\* The capability words a vehicle may answer with.
CapWords == {U32(0, 0), U32(65535, 65535), U32(32768, 1), U32(16, 0)}

\* A well-formed reply to the request for group base c: "41", the low byte of
\* the address, and the eight hex digits of the word.
CapReply(c, w) == <<"4", "1">> \o SubSeq(Hex4(c % 256), 3, 4) \o Hex4(w.hi) \o Hex4(w.lo)

\* What the line may do with a group request: answer with a word, fail the
\* read, answer NODATA, answer too short a word, or break off after "41".
ScanIos(c) ==
    {[wr |-> TRUE, rd |-> TRUE, s |-> CapReply(c, w)] : w \in CapWords}
    \cup {[wr |-> TRUE, rd |-> FALSE, s |-> <<>>],
          [wr |-> TRUE, rd |-> TRUE, s |-> <<"N", "O", "D", "A", "T", "A">>],
          [wr |-> TRUE, rd |-> TRUE, s |-> <<"4", "1">>]}

\* One iteration of: for c in 0..MAXPIDS-1 { ... obd.capa[c + 1] = ... }
ScanStep ==
    /\ scanPc = "scan"
    /\ scanC \in ScanIterations
    /\ LET idx == scanC % GROUP IN
       IF idx = 0 /\ scanC >= FIRSTGROUP
       THEN \E io \in ScanIos(scanC) :
               LET r == pid(scanC, 4, io) IN
               CASE r.kind = "Ok" ->
                      /\ cap' = r.val
                      /\ words' = Append(words, [base |-> scanC, word |-> r.val])
                      /\ obdTx' = Append(obdTx, Obd(clk, CAPA, AsIsize(r.val)))
                      /\ clk' = clk + 1
                      /\ capa' = [capa EXCEPT ![ScanIndex(scanC)] = CapaBit(r.val, idx)]
                      /\ scanC' = scanC + 1
                      /\ scanPc' = IF scanC + 1 \in ScanIterations THEN "scan" ELSE "patch"
                 [] r.kind = "Err" ->
                      /\ capa' = [capa EXCEPT ![ScanIndex(scanC)] = CapaBit(cap, idx)]
                      /\ scanC' = scanC + 1
                      /\ scanPc' = IF scanC + 1 \in ScanIterations THEN "scan" ELSE "patch"
                      /\ UNCHANGED <<cap, words, obdTx, clk>>
                 [] r.kind = "Panic" ->
                      /\ scanPc' = "dead"
                      /\ UNCHANGED <<scanC, cap, capa, words, obdTx, clk>>
       ELSE /\ capa' = [capa EXCEPT ![ScanIndex(scanC)] = CapaBit(cap, idx)]
            /\ scanC' = scanC + 1
            /\ scanPc' = IF scanC + 1 \in ScanIterations THEN "scan" ELSE "patch"
            /\ UNCHANGED <<cap, words, obdTx, clk>>
    /\ UNCHANGED <<now, rx, rxbuf, sentBy, dispPc, tc, received, forwarded>>
    /\ UNCHANGED <<bufVars, pidVars, drvVars>>

\* After the loop: the patch needed to catch "unconnected port" errors.
ScanPatch ==
    /\ scanPc = "patch"
    /\ capa' = PatchRpm(capa)
    /\ scanPc' = "done"
    /\ UNCHANGED <<scanC, cap, words, obdTx>>
    /\ UNCHANGED <<busVars, bufVars, pidVars, drvVars>>

\* The Obd value of a freshly opened session, and let mut cap = 0.
ScanInit ==
    /\ scanPc = "scan"
    /\ scanC = 0
    /\ cap = U32(0, 0)
    /\ capa = [a \in 0..(MAXPIDS - 1) |-> FALSE]
    /\ words = <<>>
    /\ obdTx = <<>>

InitScan == BusIdle /\ BufIdle /\ ScanInit /\ PidIdle /\ DrvIdle
NextScan == ScanStep \/ ScanPatch
SpecScan == InitScan /\ [][NextScan]_vars

-----------------------------------------------------------------------------
(* SpecSim: the OBD driver in simulation mode (obd.rs main, simula)        *)

MaxSimSends == 2

\* The simulator threads in the order obd::main starts them, with the range
\* of each value in tenths.
SimThreads ==
    << [pid |-> BATTERY, min |-> 118,   max |-> 146],
       [pid |-> RPM,     min |-> 8000,  max |-> 30000],
       [pid |-> ELOAD,   min |-> 0,     max |-> 1000],
       [pid |-> SPEED,   min |-> 0,     max |-> 800],
       [pid |-> THROT,   min |-> 0,     max |-> 1000],
       [pid |-> ECTEMP,  min |-> 200,   max |-> 1200],
       [pid |-> AIRTEMP, min |-> -50,   max |-> 500],
       [pid |-> SFTRIM1, min |-> -1000, max |-> 1000],
       [pid |-> LFTRIM1, min |-> -1000, max |-> 1000],
       [pid |-> EGR,     min |-> 0,     max |-> 1000] >>

\* let mut v = min + (max - min).abs() / 2.0
SimFirst(th) == th.min + (th.max - th.min) \div 2

\* normalize!(v, min, max)
Normalize(v, min, max) == IF v < min THEN min ELSE IF v > max THEN max ELSE v

\* v += (max - min).abs() / 20.0 * diff, diff random in -1.0 .. 1.0: the walk
\* is followed at its two ends and its middle.
SimWalk(th, v) ==
    { Normalize(v + d * ((th.max - th.min) \div 20), th.min, th.max) : d \in {-1, 0, 1} }

\* Where obd::main starts when the device string is empty.
SimEntrySpawnsFirst == "simSpawn"

SimEntry == "simTrouble"

\* tx.send(Info::Obd { pid: TROUBLE, val: 0 }): no troubles in simulation mode.
SimTerminator ==
    /\ drvPc = "simTrouble"
    /\ rx' = Append(rx, Obd(clk, TROUBLE, 0))
    /\ stepSent' = <<Obd(clk, TROUBLE, 0)>>
    /\ clk' = clk + 1
    /\ drvPc' = "simMil"
    /\ UNCHANGED <<obdUp, try, sessVars, sentAny, ended, lastIo, rpmFailed, simV, gpsVars, replyVars>>
    /\ UNCHANGED <<now, rxbuf, sentBy, dispPc, tc, received, forwarded>>
    /\ UNCHANGED <<bufVars, scanVars, pidVars>>

\* tx.send(Info::Obd { pid: MILSTAT, val: 0 })
SimMilstat ==
    /\ drvPc = "simMil"
    /\ rx' = Append(rx, Obd(clk, MILSTAT, 0))
    /\ stepSent' = <<Obd(clk, MILSTAT, 0)>>
    /\ clk' = clk + 1
    /\ drvPc' = "simSpawn"
    /\ UNCHANGED <<obdUp, try, sessVars, sentAny, ended, lastIo, rpmFailed, simV, gpsVars, replyVars>>
    /\ UNCHANGED <<now, rxbuf, sentBy, dispPc, tc, received, forwarded>>
    /\ UNCHANGED <<bufVars, scanVars, pidVars>>

\* start!(name, simula(..)): the threads are started one after the other;
\* obd::main returns after the last.
SimSpawn ==
    /\ drvPc = "simSpawn"
    /\ \E k \in 1..Len(SimThreads) :
          /\ ~simV[k].on
          /\ \A j \in 1..(k - 1) : simV[j].on
          /\ simV' = [simV EXCEPT ![k] = [on |-> TRUE, v |-> SimFirst(SimThreads[k])]]
          /\ drvPc' = IF k = Len(SimThreads) THEN "simDone" ELSE "simSpawn"
    /\ stepSent' = <<>>
    /\ UNCHANGED <<obdUp, try, sessVars, sentAny, ended, lastIo, rpmFailed, gpsVars, replyVars>>
    /\ UNCHANGED <<busVars, bufVars, scanVars, pidVars>>

\* One turn of simula's loop: send the sample, move the value, wait.
SimulaSend(k) ==
    /\ simV[k].on
    /\ Len(rx) < MaxSimSends + 2
    /\ rx' = Append(rx, Obd(clk, SimThreads[k].pid, simV[k].v))
    /\ stepSent' = <<Obd(clk, SimThreads[k].pid, simV[k].v)>>
    /\ clk' = clk + 1
    /\ \E v \in SimWalk(SimThreads[k], simV[k].v) : simV' = [simV EXCEPT ![k].v = v]
    /\ UNCHANGED <<obdUp, drvPc, try, sessVars, sentAny, ended, lastIo, rpmFailed, gpsVars, replyVars>>
    /\ UNCHANGED <<now, rxbuf, sentBy, dispPc, tc, received, forwarded>>
    /\ UNCHANGED <<bufVars, scanVars, pidVars>>

SimInit ==
    /\ obdUp = TRUE
    /\ drvPc = SimEntry
    /\ try = 0
    /\ crash = FALSE
    /\ rpm = 0
    /\ batwait = 0
    /\ iter = 0
    /\ pollPos = 0
    /\ stepSent = <<>>
    /\ sentAny = FALSE
    /\ ended = "none"
    /\ lastIo = <<>>
    /\ rpmFailed = FALSE
    /\ GpsIdle
    /\ ReplyIdle
    /\ simV = [k \in 1..Len(SimThreads) |-> [on |-> FALSE, v |-> 0]]

InitSim == BusIdle /\ BufIdle /\ ScanIdle /\ PidIdle /\ SimInit
NextSim ==
    \/ SimTerminator
    \/ SimMilstat
    \/ SimSpawn
    \/ \E k \in 1..Len(SimThreads) : SimulaSend(k)
SpecSim == InitSim /\ [][NextSim]_vars

-----------------------------------------------------------------------------
(* SpecObd: the OBD driver thread with a device (obd.rs main, impl Obd)    *)
(*                                                                         *)
(* The thread is sequential: one step per serial open, per configuration,  *)
(* per capability scan, per trouble-code query and per read of the poll    *)
(* loop.  ::clock() is read but not advanced here: two readings may agree. *)

MAXTRIES == 10

\* The strings the driver compares replies with or the dongle answers with.
StrOK == <<"O", "K">>
StrNODATA == <<"N", "O", "D", "A", "T", "A">>

IoWriteErr == [wr |-> FALSE, rd |-> FALSE, s |-> <<>>]
IoReadErr  == [wr |-> TRUE, rd |-> FALSE, s |-> <<>>]
IoReply(str) == [wr |-> TRUE, rd |-> TRUE, s |-> str]

\* Obd::cmd: the reply, or the empty string on a write or read error.
cmd(io) == IF ~io.wr THEN <<>> ELSE IF ~io.rd THEN <<>> ELSE io.s

\* Obd::cmd_ok: true if something went wrong.
cmd_ok(io) == cmd(io) # StrOK

\* The mode-setting commands: atl1, ate0, atsp0, ats0, atal, ath0, atd0.
NCONF == 7

\* cmd_ok(..) || cmd_ok(..) || ..: the index of the first command that went
\* wrong, 0 if none did; the commands after it are not sent.
RECURSIVE FirstWrong(_, _)
FirstWrong(replies, i) ==
    IF i > NCONF THEN 0
    ELSE IF cmd_ok(replies[i]) THEN i
    ELSE FirstWrong(replies, i + 1)

\* What the dongle may answer to a mode-setting command instead of OK.
ConfBadIos == {IoWriteErr, IoReadErr, IoReply(<<"?">>), IoReply(<<"O", "K", "O", "K">>)}

\* The replies to the seven commands: all OK, or OK up to a first bad one.
ConfReplies ==
    {[i \in 1..NCONF |-> IoReply(StrOK)]}
    \cup {[i \in 1..NCONF |-> IF i = k THEN bad ELSE IoReply(StrOK)] :
             k \in 1..NCONF, bad \in ConfBadIos}

\* for try in 1..MAXTRIES: the connect loop goes on with the next try, or
\* ends after the last ("obd task gave up").
NextTryPc(t) == IF t + 1 < MAXTRIES THEN "connect" ELSE "gaveup"

\* A variant of the table a session starts with: every parameter available.
AllCapable == [a \in 0..(MAXPIDS - 1) |-> TRUE]

\* capa: [ false; MAXPIDS ]
NoCapability == [a \in 0..(MAXPIDS - 1) |-> FALSE]

\* ::serial::open(&device), and on success the construction of Obd.
DrvOpen ==
    /\ drvPc = "connect"
    /\ \E opened \in BOOLEAN :
          IF opened
          THEN /\ drvPc' = "configure"
               /\ capa' = NoCapability
               /\ rpm' = 0
               /\ crash' = FALSE
               /\ sentAny' = FALSE
               /\ rpmFailed' = FALSE
               /\ lastIo' = [step |-> "open", ok |-> TRUE]
               /\ UNCHANGED <<try, obdUp, ended>>
          ELSE /\ IF try = MAXTRIES - 1
                  THEN drvPc' = "gaveup" /\ obdUp' = FALSE /\ try' = try
                  ELSE drvPc' = "connect" /\ obdUp' = obdUp /\ try' = try + 1
               /\ ended' = "open"
               /\ lastIo' = [step |-> "open", ok |-> FALSE]
               /\ UNCHANGED <<capa, rpm, crash, sentAny, rpmFailed>>
    /\ stepSent' = <<>>
    /\ UNCHANGED <<batwait, iter, pollPos, simV, gpsVars, replyVars>>
    /\ UNCHANGED <<scanPc, scanC, cap, words, obdTx>>
    /\ UNCHANGED <<busVars, bufVars, pidVars>>

\* cmd("\n"), cmd("atz\n"), then the mode-setting commands; on a failure
\* the attempt is over: println and continue.
DrvConfigure ==
    /\ drvPc = "configure"
    /\ \E replies \in ConfReplies :
          /\ lastIo' = [step |-> "configure", replies |-> replies]
          /\ IF FirstWrong(replies, 1) # 0
             THEN /\ drvPc' = NextTryPc(try)
                  /\ try' = IF try + 1 < MAXTRIES THEN try + 1 ELSE try
                  /\ obdUp' = (try + 1 < MAXTRIES)
                  /\ ended' = "configure"
             ELSE /\ drvPc' = "scan"
                  /\ ended' = "none"
                  /\ UNCHANGED <<try, obdUp>>
    /\ stepSent' = <<>>
    /\ UNCHANGED <<sessVars, sentAny, rpmFailed, simV, gpsVars, replyVars>>
    /\ UNCHANGED <<busVars, bufVars, scanVars, pidVars>>

\* What the vehicle may answer to the four group requests of one scan: no
\* answer at all (unconnected port), only the first group, every group, or a
\* reply to the first group that breaks off after "41".
ScanOutcomes ==
    {[b \in GroupBases |-> IoReadErr],
     [b \in GroupBases |-> IF b = FIRSTGROUP THEN IoReply(CapReply(b, U32(65535, 65535)))
                           ELSE IoReply(StrNODATA)],
     [b \in GroupBases |-> IoReply(CapReply(b, U32(65535, 65535)))],
     [b \in GroupBases |-> IoReply(<<"4", "1">>)]}

\* for c in 0..MAXPIDS-1 { .. }, from iteration c on, c a multiple of GROUP,
\* taking the GROUP iterations that share one value of cap in one go: the
\* bitmap word, the table and the CAPA events at the end of the loop, or the
\* panic of pid().
RECURSIVE ScanRun(_, _, _, _, _)
ScanRun(c, w, table, sent, outcome) ==
    IF c \notin ScanIterations
    THEN [dead |-> FALSE, cap |-> w, capa |-> table, sent |-> sent]
    ELSE LET ask == c >= FIRSTGROUP
             r   == IF ask THEN pid(c, 4, outcome[c]) ELSE Err("")
         IN IF ask /\ r.kind = "Panic"
            THEN [dead |-> TRUE, cap |-> w, capa |-> table, sent |-> sent]
            ELSE LET w2 == IF ask /\ r.kind = "Ok" THEN r.val ELSE w
                     s2 == IF ask /\ r.kind = "Ok"
                           THEN Append(sent, Obd(clk, CAPA, AsIsize(r.val)))
                           ELSE sent
                     t2 == [a \in DOMAIN table |->
                               IF /\ a - 1 >= c /\ a - 1 < c + GROUP
                                  /\ a - 1 \in ScanIterations
                                  /\ a = ScanIndex(a - 1)
                               THEN CapaBit(w2, (a - 1) % GROUP)
                               ELSE table[a]]
                 IN ScanRun(c + GROUP, w2, t2, s2, outcome)

\* cmd_multi("0902"), cmd_multi("0904") with their results dropped, then
\* let mut cap = 0, the capability scan and the RPM patch.
DrvScan ==
    /\ drvPc = "scan"
    /\ \E outcome \in ScanOutcomes :
          LET r == ScanRun(0, U32(0, 0), capa, <<>>, outcome) IN
          /\ lastIo' = [step |-> "scan", outcome |-> outcome]
          /\ stepSent' = r.sent
          /\ sentAny' = (sentAny \/ r.sent # <<>>)
          /\ IF r.dead
             THEN /\ drvPc' = "dead"
                  /\ obdUp' = FALSE
                  /\ ended' = "panic"
                  /\ UNCHANGED <<cap, capa>>
             ELSE /\ drvPc' = "trouble"
                  /\ cap' = r.cap
                  /\ capa' = PatchRpm(r.capa)
                  /\ UNCHANGED <<obdUp, ended>>
    /\ UNCHANGED <<try, sessVars, rpmFailed, simV, gpsVars, replyVars>>
    /\ UNCHANGED <<scanPc, scanC, words, obdTx>>
    /\ UNCHANGED <<busVars, bufVars, pidVars>>

IsDec(ch) == IsHex(ch) /\ DigitVal(ch) <= 9

RECURSIVE DecNum(_)
DecNum(s) == IF s = <<>> THEN 0 ELSE 10 * DecNum(SubSeq(s, 1, Len(s) - 1)) + DigitVal(s[Len(s)])

\* u32::from_str_radix(s, 10).unwrap_or(9999) on a four-character slice
TroubleCode(s) == IF \A i \in 1..Len(s) : IsDec(s[i]) THEN DecNum(s) ELSE 9999

\* What the dongle may answer to "03": no stored code, one stored code and a
\* slice that is no number, NODATA, nothing.
TroubleIos ==
    {IoReply(<<"4", "3", "0", "0", "0", "0", "0", "0", "0", "0", "0", "0", "0", "0">>),
     IoReply(<<"4", "3", "0", "1", "0", "3", "0", "0", "0", "0", "A", "0", "0", "0">>),
     IoReply(StrNODATA),
     IoReadErr}

\* The TROUBLE events of one reply: the codes above zero, then the
\* terminator; nothing if the reply has fewer than 14 characters.
TroubleEvents(s) ==
    IF Len(s) < 14 THEN <<>>
    ELSE LET tcs == <<TroubleCode(SubSeq(s, 3, 6)), TroubleCode(SubSeq(s, 7, 10)),
                      TroubleCode(SubSeq(s, 11, 14))>>
             ev(i) == IF tcs[i] > 0 THEN <<Obd(clk, TROUBLE, tcs[i])>> ELSE <<>>
         IN ev(1) \o ev(2) \o ev(3) \o <<Obd(clk, TROUBLE, 0)>>

\* let s = obd.cmd("03\n"); if s.len() >= 14 { .. }
DrvTrouble ==
    /\ drvPc = "trouble"
    /\ \E io \in TroubleIos :
          /\ lastIo' = [step |-> "trouble", io |-> io]
          /\ stepSent' = TroubleEvents(cmd(io))
          /\ sentAny' = (sentAny \/ TroubleEvents(cmd(io)) # <<>>)
    /\ drvPc' = "milstat"
    /\ UNCHANGED <<obdUp, try, sessVars, ended, rpmFailed, simV, gpsVars, replyVars>>
    /\ UNCHANGED <<busVars, bufVars, scanVars, pidVars>>

\* ((val as f64 / 2.55) * 10.0) as usize, which on 0..255 is the quotient
\* of val * 1000 by 255.
perc(val) == (val * 1000) \div 255

\* ((val as isize) * 128 - 64*256) as usize, read back as isize
halfdeg(val) == val * 128 - 64 * 256

\* (val as f64 * 0.079 * 10.0) as usize, which on 0..65535 is the quotient
\* of val * 79 by 100.
kpa10(val) == (val * 79) \div 100

\* val - 40 * 10
cata(val) == val - 40 * 10

\* A variant of the RPM closure: one and a half times the raw value.
rpmscale15(x) == x + x \div 2

\* |x| x + x + x/2
rpmscale(x) == x + x + x \div 2

\* The closure each emit call of basicpids .. infopids passes, by parameter,
\* and "as isize" of its result. Where a usize subtraction goes below zero
\* this is the value of a build without overflow checks: the difference
\* wraps, and so does the product, to the signed value given here.
Apply(p, x) ==
    CASE p = RPM -> rpmscale(x)
      [] p \in {THROT, ELOAD, EGR, FUEL, SFTRIM1, LFTRIM1, SFTRIM2, LFTRIM2, EVAP} -> perc(x)
      [] p \in {SPEED, BPRESS, FPRESSD, RUNTIME, MIL, WARMUPS} -> x * 10
      [] p \in {AIRTEMP, ECTEMP, INTAKE} -> (x - 40) * 10
      [] p = EEGR -> (x - 128) * 10
      [] p = TIMING -> halfdeg(x)
      [] p = FPRESSM -> kpa10(x)
      [] p \in {CATA1S1, CATA2S1, CATA1S2, CATA2S2} -> cata(x)
      [] OTHER -> x

\* The closure subtracts, on usize, more than the raw value.
Underflows(p, x) ==
    \/ p \in {AIRTEMP, ECTEMP, INTAKE} /\ x < 40
    \/ p = EEGR /\ x < 128
    \/ p \in {CATA1S1, CATA2S1, CATA1S2, CATA2S2} /\ x < 40 * 10

\* Whether apply(value) may panic: never, unless the subtraction goes below
\* zero, and then it does in a build with overflow checks ("attempt to
\* subtract with overflow") and does not in a build without them.
ApplyPanics(p, w) ==
    IF w.hi = 0 /\ Underflows(p, w.lo) THEN {FALSE, TRUE} ELSE {FALSE}

\* result as isize, for the word pid() returned.
EmitValue(p, w) == IF w.hi = 0 THEN Apply(p, w.lo) ELSE AsIsize(w)

PollEntry(p, n, gated) == [pid |-> p, bytes |-> n, gated |-> gated]

basicpids == <<PollEntry(RPM, 2, FALSE), PollEntry(THROT, 1, FALSE),
               PollEntry(ELOAD, 1, FALSE), PollEntry(SPEED, 1, FALSE)>>
temppids  == <<PollEntry(AIRTEMP, 1, FALSE), PollEntry(ECTEMP, 1, FALSE),
               PollEntry(EGR, 1, FALSE), PollEntry(EEGR, 1, FALSE),
               PollEntry(BPRESS, 1, FALSE)>>
fuelpids  == <<PollEntry(FUEL, 1, TRUE), PollEntry(FSTATUS, 2, TRUE),
               PollEntry(SFTRIM1, 1, TRUE), PollEntry(LFTRIM1, 1, TRUE),
               PollEntry(SFTRIM2, 1, TRUE), PollEntry(LFTRIM2, 1, TRUE)>>
extrapids == <<PollEntry(TIMING, 1, TRUE), PollEntry(INTAKE, 1, TRUE),
               PollEntry(MAFLOW, 2, TRUE), PollEntry(FPRESSD, 2, TRUE),
               PollEntry(FPRESSM, 2, TRUE), PollEntry(EVAP, 1, TRUE)>>
catapids  == <<PollEntry(CATA1S1, 2, TRUE), PollEntry(CATA2S1, 2, TRUE),
               PollEntry(CATA1S2, 2, TRUE), PollEntry(CATA2S2, 2, TRUE)>>
infopids  == <<PollEntry(RUNTIME, 2, TRUE), PollEntry(MIL, 2, TRUE),
               PollEntry(WARMUPS, 1, TRUE)>>

\* A variant of the iteration that reads the basic parameters only once.
PollListBasicOnce ==
    basicpids \o temppids \o fuelpids \o extrapids \o catapids \o infopids

\* The emit calls of one iteration of the loop of mainloop, in order; the
\* gated ones are made only if self.rpm > 0.
PollList ==
    basicpids \o temppids \o basicpids \o fuelpids \o basicpids \o extrapids
    \o basicpids \o catapids \o basicpids \o infopids

\* A well-formed reply to a read of n bytes at p with value v.
DataReply(p, n, v) ==
    <<"4", "1">> \o SubSeq(Hex4(p % 256), 3, 4)
    \o (IF n = 1 THEN SubSeq(Hex4(v), 3, 4) ELSE IF n = 2 THEN Hex4(v) ELSE Hex4(0) \o Hex4(v))

\* The values the vehicle reports: engine stopped or running for RPM.
EmitVals(p, n) == IF p = RPM THEN {0, 4096} ELSE IF n = 1 THEN {200} ELSE {500}

\* What the line may do with a read of n bytes at p: a value, a failed read,
\* NODATA, a reply one digit short, a reply that breaks off after "41".
EmitIos(p, n) ==
    {IoReply(DataReply(p, n, v)) : v \in EmitVals(p, n)}
    \cup {IoReadErr, IoReply(StrNODATA),
          IoReply(SubSeq(DataReply(p, n, 0), 1, 3 + 2 * n)),
          IoReply(<<"4", "1">>)}

\* What came back for a command: nothing (the write or the read failed), a
\* reply that starts with "4", or a reply that does not.
ReplyClass(io) ==
    IF ~io.wr \/ ~io.rd THEN "none"
    ELSE IF io.s # <<>> /\ Head(io.s) = "4" THEN "prefix"
    ELSE "noprefix"

\* A variant that flags a crash whatever the parameter.
CrashAlways(p) == TRUE

\* self.crash = method == RPM
CrashAfter(p) == (p = RPM)

\* A variant of the test that takes every parameter for available.
AlwaysCapable(p) == TRUE

\* self.capa[method]
Capable(p) == capa[p]

\* Obd::emit with the reply io, as a step of the driver: what follows it is
\* nextPc with poll position nextPos.
Emit(p, n, io, nextPc, nextPos) ==
    IF ~Capable(p)
    THEN /\ lastIo' = [step |-> "skip", pid |-> p, kind |-> "capa"]
         /\ stepSent' = <<>>
         /\ drvPc' = nextPc
         /\ pollPos' = nextPos
         /\ UNCHANGED <<crash, rpm, sentAny, rpmFailed, obdUp, ended>>
    ELSE LET r == pid(p, n, io) IN
         /\ lastIo' = [step |-> "emit", pid |-> p, kind |-> r.kind, reply |-> ReplyClass(io)]
         /\ CASE r.kind = "Err" ->
                   /\ crash' = CrashAfter(p)
                   /\ rpmFailed' = (rpmFailed \/ p = RPM)
                   /\ stepSent' = <<>>
                   /\ drvPc' = nextPc
                   /\ pollPos' = nextPos
                   /\ UNCHANGED <<rpm, sentAny, obdUp, ended>>
              [] r.kind = "Ok" ->
                   \E panics \in ApplyPanics(p, r.val) :
                      IF panics
                      THEN /\ drvPc' = "dead"
                           /\ obdUp' = FALSE
                           /\ ended' = "panic"
                           /\ stepSent' = <<>>
                           /\ UNCHANGED <<crash, rpm, pollPos, sentAny, rpmFailed>>
                      ELSE /\ rpm' = IF p = RPM THEN EmitValue(p, r.val) ELSE rpm
                           /\ stepSent' = <<Obd(clk, p, EmitValue(p, r.val))>>
                           /\ sentAny' = TRUE
                           /\ drvPc' = nextPc
                           /\ pollPos' = nextPos
                           /\ UNCHANGED <<crash, rpmFailed, obdUp, ended>>
              [] r.kind = "Panic" ->
                   /\ drvPc' = "dead"
                   /\ obdUp' = FALSE
                   /\ ended' = "panic"
                   /\ stepSent' = <<>>
                   /\ UNCHANGED <<crash, rpm, pollPos, sentAny, rpmFailed>>

\* mainloop: let mut batwait = 0; self.emit(MILSTAT, 4, |x| x);
DrvMilstat ==
    /\ drvPc = "milstat"
    /\ batwait' = 0
    /\ iter' = 0
    /\ \E io \in EmitIos(MILSTAT, 4) : Emit(MILSTAT, 4, io, "battery", 0)
    /\ UNCHANGED <<try, simV, gpsVars, replyVars>>
    /\ UNCHANGED <<busVars, bufVars, scanVars, pidVars>>

\* str::parse::<f64>(bat) and (v * 10.0) as isize, for a reply of digits,
\* dots and letters other than e: digits with at most one dot among them.
BatteryVal(s) ==
    LET dots == {i \in 1..Len(s) : s[i] = "."}
        d    == IF dots = {} THEN Len(s) + 1 ELSE CHOOSE i \in dots : TRUE
    IN IF \/ Cardinality(dots) > 1
          \/ \E i \in 1..Len(s) : ~Keeps(s[i])
          \/ Len(s) - Cardinality(dots) = 0
       THEN Err("invalid float literal")
       ELSE Ok(DecNum(SubSeq(s, 1, d - 1)) * 10
               + (IF d + 1 <= Len(s) THEN DigitVal(s[d + 1]) ELSE 0))

\* What the dongle may answer to atrv: a voltage, two dots, NODATA, nothing.
BatIos ==
    {IoReply(<<"1", "2", ".", "6", "V">>), IoReply(<<"1", ".", "2", ".", "3">>),
     IoReply(StrNODATA), IoReadErr}

\* The iterations of mainloop's loop followed in one session.
MaxIter == 6

\* A variant of the countdown with six steps.
NextBatwaitSix(b) == (b + 1) % 6

\* batwait = (batwait + 1) % 5
NextBatwait(b) == (b + 1) % 5

\* The head of the loop of mainloop: the battery reading every fifth time.
DrvBattery ==
    /\ drvPc = "battery"
    /\ iter < MaxIter
    /\ iter' = iter + 1
    /\ IF batwait = 0
       THEN \E io \in BatIos :
               LET bat == get_pid_val(TRUE, io)
                   v   == IF bat.kind = "Ok" THEN BatteryVal(bat.val) ELSE bat
               IN /\ lastIo' = [step |-> "battery", pid |-> BATTERY, kind |-> v.kind]
                  /\ IF v.kind = "Ok"
                     THEN /\ stepSent' = <<Obd(clk, BATTERY, v.val)>>
                          /\ sentAny' = TRUE
                          /\ batwait' = NextBatwait(batwait)
                          /\ drvPc' = "check"
                          /\ ended' = ended
                     ELSE /\ stepSent' = <<>>
                          /\ drvPc' = "cooldown"
                          /\ ended' = "battery"
                          /\ UNCHANGED <<sentAny, batwait>>
       ELSE /\ lastIo' = [step |-> "skip", pid |-> BATTERY, kind |-> "batwait"]
            /\ stepSent' = <<>>
            /\ batwait' = NextBatwait(batwait)
            /\ drvPc' = "check"
            /\ UNCHANGED <<sentAny, ended>>
    /\ UNCHANGED <<obdUp, try, crash, rpm, pollPos, rpmFailed, simV, gpsVars, replyVars>>
    /\ UNCHANGED <<busVars, bufVars, scanVars, pidVars>>

\* if self.crash { return }
DrvCheck ==
    /\ drvPc = "check"
    /\ IF crash
       THEN drvPc' = "cooldown" /\ ended' = "crash" /\ pollPos' = pollPos
       ELSE drvPc' = "poll" /\ ended' = ended /\ pollPos' = 1
    /\ rpmFailed' = FALSE
    /\ lastIo' = [step |-> "check", pid |-> RPM, kind |-> "crash"]
    /\ stepSent' = <<>>
    /\ UNCHANGED <<obdUp, try, crash, rpm, batwait, iter, sentAny, simV, gpsVars, replyVars>>
    /\ UNCHANGED <<busVars, bufVars, scanVars, pidVars>>

\* One emit call of basicpids .. infopids, or its omission while rpm is 0.
DrvEmit ==
    /\ drvPc = "poll"
    /\ LET e       == PollList[pollPos]
           last    == pollPos = Len(PollList)
           nextPc  == IF last THEN "battery" ELSE "poll"
           nextPos == IF last THEN 0 ELSE pollPos + 1
       IN IF e.gated /\ ~(rpm > 0)
          THEN /\ lastIo' = [step |-> "skip", pid |-> e.pid, kind |-> "rpm"]
               /\ stepSent' = <<>>
               /\ drvPc' = nextPc
               /\ pollPos' = nextPos
               /\ UNCHANGED <<crash, rpm, sentAny, rpmFailed, obdUp, ended>>
          ELSE \E io \in EmitIos(e.pid, e.bytes) : Emit(e.pid, e.bytes, io, nextPc, nextPos)
    /\ UNCHANGED <<try, batwait, iter, simV, gpsVars, replyVars>>
    /\ UNCHANGED <<busVars, bufVars, scanVars, pidVars>>

\* println!("!--obd loop crashed"); ::wait(FAILWAIT); then the next try.
DrvCooldown ==
    /\ drvPc = "cooldown"
    /\ drvPc' = NextTryPc(try)
    /\ try' = IF try + 1 < MAXTRIES THEN try + 1 ELSE try
    /\ obdUp' = (try + 1 < MAXTRIES)
    /\ lastIo' = [step |-> "cooldown", pid |-> 0, kind |-> "wait"]
    /\ stepSent' = <<>>
    /\ UNCHANGED <<sessVars, sentAny, ended, rpmFailed, simV, gpsVars, replyVars>>
    /\ UNCHANGED <<busVars, bufVars, scanVars, pidVars>>

\* The driver thread as main starts it with a device: try = 1, before the
\* first serial open.
ObdInit ==
    /\ obdUp = TRUE
    /\ drvPc = "connect"
    /\ try = 1
    /\ crash = FALSE
    /\ rpm = 0
    /\ batwait = 0
    /\ iter = 0
    /\ pollPos = 0
    /\ stepSent = <<>>
    /\ sentAny = FALSE
    /\ ended = "none"
    /\ lastIo = [step |-> "start"]
    /\ rpmFailed = FALSE
    /\ simV = <<>>
    /\ GpsIdle
    /\ ReplyIdle

InitObd == BusIdle /\ BufIdle /\ ScanIdle /\ PidIdle /\ ObdInit

NextObd ==
    \/ DrvOpen
    \/ DrvConfigure
    \/ DrvScan
    \/ DrvTrouble
    \/ DrvMilstat
    \/ DrvBattery
    \/ DrvCheck
    \/ DrvEmit
    \/ DrvCooldown

SpecObd == InitObd /\ [][NextObd]_vars

-----------------------------------------------------------------------------
(* SpecScale: one emit call of the poll loop on every raw value *)

\* The positions of PollList whose emit call is followed: RPM of the first
\* basic group, AIRTEMP and ECTEMP of the temperature group.
ScalePositions == {p \in 1..6 : PollList[p].pid \in {RPM, AIRTEMP, ECTEMP}}

\* The largest value of n bytes.
RawMax(n) == 256^n - 1

\* A session inside the poll loop, about to make the emit call at one of the
\* positions, with the reply the vehicle is going to give: every value of
\* the parameter's width. The scan found every parameter supported, the
\* engine is stopped, the history starts empty.
ScaleInit ==
    /\ scanPc = "idle"
    /\ scanC = 0
    /\ cap = U32(65535, 65535)
    /\ capa = PatchRpm(ScanRun(0, U32(0, 0), NoCapability, <<>>,
                               [b \in GroupBases |-> IoReply(CapReply(b, U32(65535, 65535)))]).capa)
    /\ words = <<>>
    /\ obdTx = <<>>
    /\ obdUp = TRUE
    /\ drvPc = "poll"
    /\ try = 1
    /\ crash = FALSE
    /\ rpm = 0
    /\ batwait = 1
    /\ iter = 1
    /\ pollPos \in ScalePositions
    /\ stepSent = <<>>
    /\ sentAny = FALSE
    /\ ended = "none"
    /\ lastIo = [step |-> "start"]
    /\ rpmFailed = FALSE
    /\ simV = <<>>
    /\ GpsIdle
    /\ ReplyIdle
    /\ pidPc = "call"
    /\ pidExpected = [pidno |-> PollList[pollPos].pid, expected |-> PollList[pollPos].bytes]
    /\ pidReply \in {IoReply(DataReply(pidExpected.pidno, pidExpected.expected, v)) :
                        v \in 0..RawMax(pidExpected.expected)}
    /\ pidResult = <<>>

\* The emit call at the position, on the reply.
ScaleEmit ==
    /\ pidPc = "call"
    /\ drvPc = "poll"
    /\ Emit(PollList[pollPos].pid, PollList[pollPos].bytes, pidReply, "poll", pollPos + 1)
    /\ pidPc' = "ret"
    /\ UNCHANGED <<pidReply, pidExpected, pidResult>>
    /\ UNCHANGED <<try, batwait, iter, simV, gpsVars, replyVars>>
    /\ UNCHANGED <<busVars, bufVars, scanVars>>

InitScale == BusIdle /\ BufIdle /\ ScaleInit

NextScale == ScaleEmit

SpecScale == InitScale /\ [][NextScale]_vars

-----------------------------------------------------------------------------
(* SpecReply: one serial command, byte by byte (obd.rs Obd::cmd, get_reply) *)

\* Longest reply string followed, the "SEARCHING..." message not counted.
MaxRcvd == 5

\* Most bytes one port.read delivers, the "SEARCHING..." message apart.
MaxChunk == 2

\* The bytes the device may send: two significant characters, a blank (any
\* byte up to 32 or from 127 on), and the prompt.
PromptByte == ">"
DeviceBytes == {"4", "1", " ", PromptByte}

\* if b > 32 && b < 127
Significant(b) == b # " "

SearchingMsg == <<"S", "E", "A", "R", "C", "H", "I", "N", "G", ".", ".", ".">>

\* What one successful port.read may put in buf: nothing, a few bytes, or
\* the "SEARCHING..." message in one piece.
Chunks ==
    UNION {[1..k -> DeviceBytes] : k \in 0..MaxChunk} \cup {SearchingMsg}

StartsWith(s, pre) == Len(s) >= Len(pre) /\ SubSeq(s, 1, Len(pre)) = pre

\* rcvd.split_at(12).1 when rcvd starts with the "searching" message
Wiped(s) ==
    IF StartsWith(s, SearchingMsg) THEN SubSeq(s, Len(SearchingMsg) + 1, Len(s)) ELSE s

\* The for loop over the bytes of one chunk: a significant byte other than
\* the prompt is pushed on rcvd; the prompt ends get_reply with Ok, and the
\* bytes after it are dropped with buf.
RECURSIVE ScanChunk(_, _)
ScanChunk(r, chunk) ==
    IF chunk = <<>> THEN [done |-> FALSE, s |-> r]
    ELSE LET b == Head(chunk) IN
         IF ~Significant(b) THEN ScanChunk(r, Tail(chunk))
         ELSE IF b # PromptByte THEN ScanChunk(Append(r, b), Tail(chunk))
         ELSE [done |-> TRUE, s |-> Wiped(r)]

\* cmd: port.write(cmdstr); on Err the empty string is returned at once, on
\* Ok get_reply starts with an empty rcvd.
CmdWrite ==
    /\ replyPc = "call"
    /\ \E written \in BOOLEAN :
          IF written
          THEN /\ replyPc' = "read"
               /\ rcvd' = <<>>
               /\ replyOdd' = FALSE
               /\ UNCHANGED replyRes
          ELSE /\ replyPc' = "ret"
               /\ replyRes' = <<>>
               /\ UNCHANGED <<rcvd, replyOdd>>
    /\ UNCHANGED <<obdUp, drvPc, try, sessVars, histVars, simV, gpsVars>>
    /\ UNCHANGED <<busVars, bufVars, scanVars, pidVars>>

\* One port.read of get_reply's loop.  Err (an I/O error, or no byte within
\* TIMEOUT) returns Err, which cmd turns into the empty string; Ok(bytes)
\* scans the bytes and, with no prompt among them, reads again.
GetReplyRead ==
    /\ replyPc = "read"
    /\ replyOdd' = ~replyOdd
    /\ \/ /\ replyPc' = "ret"
          /\ replyRes' = <<>>
          /\ rcvd' = <<>>
       \/ \E chunk \in Chunks :
             LET r == ScanChunk(rcvd, chunk) IN
             /\ Len(Wiped(r.s)) <= MaxRcvd
             /\ IF r.done
                THEN /\ replyPc' = "ret"
                     /\ replyRes' = r.s
                     /\ rcvd' = <<>>
                ELSE /\ rcvd' = r.s
                     /\ UNCHANGED <<replyPc, replyRes>>
    /\ UNCHANGED <<obdUp, drvPc, try, sessVars, histVars, simV, gpsVars>>
    /\ UNCHANGED <<busVars, bufVars, scanVars, pidVars>>

\* cmd has returned its string, which its caller consumes; the driver goes on
\* to its next command.
CmdReturn ==
    /\ replyPc = "ret"
    /\ replyPc' = "call"
    /\ replyRes' = <<>>
    /\ UNCHANGED <<rcvd, replyOdd>>
    /\ UNCHANGED <<obdUp, drvPc, try, sessVars, histVars, simV, gpsVars>>
    /\ UNCHANGED <<busVars, bufVars, scanVars, pidVars>>

\* The driver about to send a command on an open port.
ReplyInit ==
    /\ obdUp = TRUE
    /\ drvPc = "idle"
    /\ try = 0
    /\ crash = FALSE
    /\ rpm = 0
    /\ batwait = 0
    /\ iter = 0
    /\ pollPos = 0
    /\ stepSent = <<>>
    /\ sentAny = FALSE
    /\ ended = "none"
    /\ lastIo = [step |-> "start", kind |-> "none"]
    /\ rpmFailed = FALSE
    /\ simV = <<>>
    /\ GpsIdle
    /\ replyPc = "call"
    /\ rcvd = <<>>
    /\ replyOdd = FALSE
    /\ replyRes = <<>>

InitReply == BusIdle /\ BufIdle /\ ScanIdle /\ PidIdle /\ ReplyInit

NextReply == CmdWrite \/ GetReplyRead \/ CmdReturn

SpecReply == InitReply /\ [][NextReply]_vars

\* The driver thread is scheduled as long as it has a step to take.
SpecReplyLive == SpecReply /\ WF_vars(NextReply)

-----------------------------------------------------------------------------
(* SpecGps: the GPS thread's connect loop and read loop (gpsd.rs main, flow) *)

\* const MAXTRIES: usize = 10 of gpsd::main
GPS_MAXTRIES == 10

\* let mut buf: [u8; 1024], in units of 256 bytes
GPSBUF == 4

\* After flow has returned and ::wait(1000): the next try, or the end of
\* the loop ("gpsd thread premature end").
GpsNextPc(t) == IF t + 1 < GPS_MAXTRIES THEN "connect" ELSE "ended"

\* TcpStream::connect("127.0.0.1:2947") of one iteration of the loop.
GpsConnect ==
    /\ gpsPc = "connect"
    /\ \E connected \in BOOLEAN :
          /\ IF connected
             THEN /\ gpsPc' = "read"
                  /\ gpsN' = 0
                  /\ gpsEof' = FALSE
                  /\ UNCHANGED <<gpsTry, gpsFails>>
             ELSE /\ gpsFails' = gpsFails + 1
                  /\ IF gpsTry = GPS_MAXTRIES - 1
                     THEN gpsPc' = "gaveup" /\ gpsTry' = gpsTry
                     ELSE gpsPc' = "connect" /\ gpsTry' = gpsTry + 1
                  /\ UNCHANGED <<gpsN, gpsEof>>
          /\ lastIo' = [step |-> "connect", kind |-> IF connected THEN "Ok" ELSE "Err"]
    /\ stepSent' = <<>>
    /\ UNCHANGED <<obdUp, drvPc, try, sessVars, sentAny, ended, rpmFailed, simV, replyVars,
                   flowVars>>
    /\ UNCHANGED <<busVars, bufVars, scanVars, pidVars>>

\* The stream has nothing more to give to this read: the peer has closed it,
\* or the buffer is full and the slice buf[n..] is empty.
NothingToRead == gpsEof \/ gpsN = GPSBUF

\* One gpsd.read(&mut buf[n..]) of the loop of flow, and what follows it.
GpsRead ==
    /\ gpsPc = "read"
    /\ \/ \* Err(e): flow returns, ::wait(1000), next try
          /\ ~NothingToRead
          /\ gpsFails' = gpsFails + 1
          /\ gpsPc' = GpsNextPc(gpsTry)
          /\ gpsTry' = IF gpsTry + 1 < GPS_MAXTRIES THEN gpsTry + 1 ELSE gpsTry
          /\ lastIo' = [step |-> "read", kind |-> "Err"]
          /\ stepSent' = <<>>
          /\ UNCHANGED <<gpsN, gpsEof>>
       \/ \* Ok(0) => continue
          /\ \E closes \in BOOLEAN :
                /\ NothingToRead \/ closes
                /\ gpsEof' = (gpsEof \/ closes)
          /\ lastIo' = [step |-> "read", kind |-> "empty"]
          /\ stepSent' = <<>>
          /\ UNCHANGED <<gpsPc, gpsTry, gpsFails, gpsN>>
       \/ \* Ok(got) with no newline in the chunk
          /\ ~NothingToRead
          /\ \E got \in 1..(GPSBUF - gpsN) : gpsN' = gpsN + got
          /\ lastIo' = [step |-> "read", kind |-> "part"]
          /\ stepSent' = <<>>
          /\ UNCHANGED <<gpsPc, gpsTry, gpsFails, gpsEof>>
       \/ \* Ok(got) with a newline: the line is emitted if it is a TPV
          \* record, and the bytes after it move to the front
          /\ ~NothingToRead
          /\ \E got \in 1..(GPSBUF - gpsN), tpv \in BOOLEAN :
                /\ \E len \in 0..(got - 1) : gpsN' = len
                /\ IF tpv
                   THEN \E g \in GpsEvents(clk) : stepSent' = <<g, PosOf(g, clk)>>
                   ELSE stepSent' = <<>>
                /\ lastIo' = [step |-> "read", kind |-> IF tpv THEN "tpv" ELSE "line"]
          /\ UNCHANGED <<gpsPc, gpsTry, gpsFails, gpsEof>>
    /\ UNCHANGED <<obdUp, drvPc, try, sessVars, sentAny, ended, rpmFailed, simV, replyVars,
                   flowVars>>
    /\ UNCHANGED <<busVars, bufVars, scanVars, pidVars>>

\* The GPS thread as main starts it: try = 1, before the first connect.
GpsInit ==
    /\ obdUp = TRUE
    /\ drvPc = "idle"
    /\ try = 0
    /\ crash = FALSE
    /\ rpm = 0
    /\ batwait = 0
    /\ iter = 0
    /\ pollPos = 0
    /\ stepSent = <<>>
    /\ sentAny = FALSE
    /\ ended = "none"
    /\ lastIo = [step |-> "start", kind |-> "none"]
    /\ rpmFailed = FALSE
    /\ simV = <<>>
    /\ ReplyIdle
    /\ FlowIdle
    /\ gpsPc = "connect"
    /\ gpsTry = 1
    /\ gpsFails = 0
    /\ gpsN = 0
    /\ gpsEof = FALSE

InitGps == BusIdle /\ BufIdle /\ ScanIdle /\ PidIdle /\ GpsInit

NextGps == GpsConnect \/ GpsRead

SpecGps == InitGps /\ [][NextGps]_vars

\* The thread is scheduled as long as it has a step to take.
SpecGpsLive == SpecGps /\ WF_vars(NextGps)

-----------------------------------------------------------------------------
(* SpecFlow: the GPS thread's read loop, byte by byte (gpsd.rs flow, emit)  *)
(*                                                                         *)
(* The stream is a sequence of tokens: "T" stands for the 15 bytes         *)
(* {"class":"TPV", that open a TPV record, "O" for the opening of a record *)
(* of another class, "a" and "b" for the fields of a record with and       *)
(* without a time fix, "\n" for the closing }\r\n.  A line is longer than  *)
(* the 15 bytes buf.starts_with looks at, so the bytes left beyond n by an *)
(* earlier line never take part in the test.                               *)

\* Most lines the daemon sends on one connection.
MaxLines == 3

\* Most tokens one read delivers.
MaxGot == 6

Newline == "\n"
TpvLines == {<<"T", "a", Newline>>, <<"T", "b", Newline>>}
OtherLines == {<<"O", "a", Newline>>}

RECURSIVE Streams(_)
Streams(k) ==
    IF k = 0 THEN {<<>>}
    ELSE {l \o s : l \in TpvLines \cup OtherLines, s \in Streams(k - 1)}

\* buf.starts_with(b"{\"class\":\"TPV\",")
StartsWithTpv(b) == Len(b) > 0 /\ b[1] = "T"

\* The first index of b after position from that holds a newline, 0 if none:
\* for idx in n-got..n { if buf[idx] == b'\n' { ... break } }
FirstNewline(b, from) ==
    LET at == {i \in (from + 1)..Len(b) : b[i] = Newline} IN
    IF at = {} THEN 0 ELSE CHOOSE i \in at : \A j \in at : i <= j

\* &buf[1..idx-3]: the record without its opening and its closing
FieldsOf(b, idx) == SubSeq(b, 2, idx - 1)

\* emit's loop over the fields: a later field of the same name replaces an
\* earlier one; then the two sends.
EmitOf(fields, t) ==
    LET vals == SelectSeq(fields, LAMBDA c : c \in {"a", "b"})
        g == IF vals # <<>> /\ vals[Len(vals)] = "a"
             THEN Gps(t, 1455840974, 120, 90, 49)
             ELSE Gps(t, 0, -1, -1, -1)
    IN <<g, PosOf(g, t)>>

\* One gpsd.read(&mut buf[n..]) of flow's loop and what follows it.
FlowRead ==
    /\ gpsPc = "read"
    /\ \/ \* Err(e): flow returns
          /\ gpsPc' = "ended"
          /\ gpsFails' = gpsFails + 1
          /\ stepSent' = <<>>
          /\ lastIo' = [step |-> "read", kind |-> "Err"]
          /\ UNCHANGED flowVars
       \/ \* Ok(got): n += got, then the first newline among the new bytes
          \E got \in 1..MaxGot :
             /\ got <= Len(flowWire)
             /\ LET b == flowBuf \o SubSeq(flowWire, 1, got)
                    idx == FirstNewline(b, Len(flowBuf))
                IN /\ flowWire' = SubSeq(flowWire, got + 1, Len(flowWire))
                   /\ flowGot' = flowGot \o SubSeq(flowWire, 1, got)
                   /\ IF idx = 0
                      THEN /\ flowBuf' = b
                           /\ stepSent' = <<>>
                           /\ lastIo' = [step |-> "read", kind |-> "part"]
                           /\ UNCHANGED flowEmitted
                      ELSE /\ flowBuf' = SubSeq(b, idx + 1, Len(b))
                           /\ IF StartsWithTpv(b)
                              THEN /\ flowEmitted' = Append(flowEmitted, FieldsOf(b, idx))
                                   /\ stepSent' = EmitOf(FieldsOf(b, idx), clk)
                                   /\ lastIo' = [step |-> "read", kind |-> "tpv"]
                              ELSE /\ stepSent' = <<>>
                                   /\ lastIo' = [step |-> "read", kind |-> "line"]
                                   /\ UNCHANGED flowEmitted
             /\ UNCHANGED <<gpsPc, gpsFails>>
    /\ UNCHANGED <<gpsTry, gpsN, gpsEof>>
    /\ UNCHANGED <<obdUp, drvPc, try, sessVars, sentAny, ended, rpmFailed, simV, replyVars>>
    /\ UNCHANGED <<busVars, bufVars, scanVars, pidVars>>

\* flow has just sent its ?WATCH request; the daemon answers with some lines.
FlowInit ==
    /\ obdUp = TRUE
    /\ drvPc = "idle"
    /\ try = 0
    /\ crash = FALSE
    /\ rpm = 0
    /\ batwait = 0
    /\ iter = 0
    /\ pollPos = 0
    /\ stepSent = <<>>
    /\ sentAny = FALSE
    /\ ended = "none"
    /\ lastIo = [step |-> "start", kind |-> "none"]
    /\ rpmFailed = FALSE
    /\ simV = <<>>
    /\ ReplyIdle
    /\ gpsPc = "read"
    /\ gpsTry = 1
    /\ gpsFails = 0
    /\ gpsN = 0
    /\ gpsEof = FALSE
    /\ flowWire \in UNION {Streams(k) : k \in 1..MaxLines}
    /\ flowBuf = <<>>
    /\ flowGot = <<>>
    /\ flowEmitted = <<>>

InitFlow == BusIdle /\ BufIdle /\ ScanIdle /\ PidIdle /\ FlowInit

NextFlow == FlowRead

SpecFlow == InitFlow /\ [][NextFlow]_vars

-----------------------------------------------------------------------------
(* Properties of the event bus and the persistence engine (under Spec) *)

IsPrefix(a, b) == Len(a) <= Len(b) /\ SubSeq(b, 1, Len(a)) = a

\* Which producer thread sends an event of this variant.
SenderOf(e) ==
    CASE e.tag = "Obd" -> "obd"
      [] e.tag \in {"Gps", "Pos"} -> "gps"
      [] e.tag = "Imu" -> "imu"
      [] OTHER -> "buffer"

FromProducer(p, q) == SelectSeq(q, LAMBDA e : SenderOf(e) = p)

RECURSIVE ReplayFiles(_)
ReplayFiles(fs) ==
    IF fs = <<>> THEN <<>> ELSE Replay(Head(fs).data) \o ReplayFiles(Tail(fs))

AfterClear == {"rename", "sync", "unnotify"}

\* C1: every event the dispatcher has received, in the startup loop or in
\* the main loop, has been sent on the persistence channel: the forwarded
\* sequence is the received sequence, nothing is dropped.
C1_EveryEventForwarded == forwarded = received

\* C2: each producer's events reach the dispatcher in the order sent, the
\* dispatcher forwards in its receive order, and the records appended to
\* the batch are, in order, the dispatcher's received events of the
\* persisted variants.
C2_BatchOrderIsReceiveOrder ==
    /\ \A p \in Producers : IsPrefix(FromProducer(p, received), sentBy[p])
    /\ IsPrefix(appended, SelectSeq(forwarded, Persistable))
    /\ IsPrefix(appended, SelectSeq(received, Persistable))

\* The part of C2 that the dispatcher does keep: per-producer order, and
\* forwarding and appending in receive order.
OrderKept ==
    /\ \A p \in Producers : IsPrefix(FromProducer(p, received), sentBy[p])
    /\ IsPrefix(appended, SelectSeq(forwarded, Persistable))

\* C3: the batch is exactly the non-Usr events received since the batch was
\* last cleared, in order, and neither the batch nor any written file holds
\* a Usr record.
C3_BatchHoldsAllButUsr ==
    /\ buf = SelectSeq(bufRecvd, LAMBDA e : e.tag # "Usr")
    /\ \A i \in 1..Len(buf) : buf[i].tag # "Usr"
    /\ \A i \in 1..Len(files) :
          \A k \in 1..Len(Replay(files[i].data)) : Replay(files[i].data)[k].tag # "Usr"

C3_Witness ==
    /\ files # <<>>
    /\ buf # <<>>
    /\ \E i \in 1..Len(bufRecvd) : bufRecvd[i].tag = "Usr"

\* C4: once a flush has serialized the batch, and until the engine has
\* accepted the next event, the batch is empty, whether the rename
\* succeeded or failed.
C4_BatchEmptyAfterFlush ==
    (\/ pcBuf \in AfterClear
     \/ (pcBuf = "recv" /\ flushAt >= 0 /\ bufRecvd = <<>>))
    => Len(buf) = 0

C4_Witness ==
    /\ pcBuf = "recv"
    /\ lastRename = "err"
    /\ bufRecvd = <<>>
    /\ Len(appended) > 0

\* C5 as stated: no flush before SECONDS have elapsed, a flush no sooner
\* than SECONDS after the previous one, and the boundary above the elapsed
\* time it was computed against.
C5_FlushesAnIntervalApart ==
    /\ flushAt >= 0 => flushAt >= SECONDS
    /\ prevFlushAt >= 0 => flushAt - prevFlushAt >= SECONDS
    /\ elaps > updNow

\* C5 as amended: no flush before SECONDS have elapsed; two consecutive
\* flushes start in different SECONDS-long windows since the start (so they
\* can be less than SECONDS apart when the earlier one was late); and the
\* boundary is above the elapsed time it was computed against.
C5_FlushCadence ==
    /\ flushAt >= 0 => flushAt >= SECONDS
    /\ prevFlushAt >= 0 => (flushAt \div SECONDS) > (prevFlushAt \div SECONDS)
    /\ elaps > updNow

C5_Witness ==
    /\ prevFlushAt >= SECONDS
    /\ flushAt > prevFlushAt
    /\ flushAt - prevFlushAt < SECONDS
    /\ pcBuf = "recv"

C7_RenameFailureNonFatal ==
    /\ [](pcBuf = "dead" => death \in {"create", "write"})
    /\ [][/\ pcBuf = "rename" =>
               /\ pcBuf' = "sync"
               /\ files'[Len(files')].data = files[Len(files)].data
               /\ lastRename' = "err" => (files' = files /\ files[Len(files)].tmp)
          /\ (pcBuf = "sync" /\ pcBuf' # "sync") => (pcBuf' = "unnotify" /\ synced' = synced + 1)
          /\ (pcBuf = "unnotify" /\ pcBuf' # "unnotify") => pcBuf' = "recv"]_bufVars

C7_Witness ==
    /\ lastRename = "err"
    /\ files[Len(files)].tmp
    /\ Len(files[Len(files)].data) > 0
    /\ synced > 0
    /\ pcBuf = "recv"
    /\ bufRecvd # <<>>

-----------------------------------------------------------------------------
(* Properties of the capability scan (under SpecScan) *)

\* Bit i of a 32-bit word, bit 0 the least significant.
BitOf(w, i) == IF i < 16 THEN (w.lo \div 2^i) % 2 ELSE (w.hi \div 2^(i - 16)) % 2

\* The table entries the scan has assigned so far are 1..scanC.
Assigned(a) == a >= 1 /\ a <= scanC

C10_RpmCapableAfterScan == scanPc = "done" => capa[RPM]

C10_Witness ==
    /\ scanPc = "done"
    /\ capa[RPM]
    /\ \A k \in 1..Len(words) :
          words[k].base = FIRSTGROUP => BitOf(words[k].word, 31 - (RPM - FIRSTGROUP - 1)) = 0

-----------------------------------------------------------------------------
(* Properties of Obd::pid (under SpecPid) *)

HexValueOf(ch) ==
    CASE ch = "0" -> 0 [] ch = "1" -> 1 [] ch = "2" -> 2 [] ch = "3" -> 3
      [] ch = "4" -> 4 [] ch = "5" -> 5 [] ch = "6" -> 6 [] ch = "7" -> 7
      [] ch = "8" -> 8 [] ch = "9" -> 9 [] ch = "A" -> 10 [] ch = "B" -> 11
      [] ch = "C" -> 12 [] ch = "D" -> 13 [] ch = "E" -> 14 [] ch = "F" -> 15
      [] OTHER -> -1

RECURSIVE Encoded(_, _)
Encoded(digits, acc) ==
    IF digits = <<>> THEN acc ELSE Encoded(Tail(digits), 16 * acc + HexValueOf(Head(digits)))

\* C9: a reply whose payload, after the 4-character header, has exactly
\* 2 * expected hex digits yields exactly the integer those digits encode;
\* a reply of any other length, also one shorter than the header, yields an
\* error value (pid returns Err, it does not abort).
C9_DecodesOrRejects ==
    (pidPc = "ret" /\ pidReply.wr /\ pidReply.rd) =>
       LET s == pidReply.s
           digits == 2 * pidExpected.expected
           payload == SubSeq(s, 5, Len(s))
       IN /\ (/\ Len(s) = 4 + digits
              /\ s[1] = "4"
              /\ \A i \in 1..Len(payload) : HexValueOf(payload[i]) >= 0)
                => pidResult = Ok(U32(0, Encoded(payload, 0)))
          /\ Len(s) # 4 + digits => pidResult.kind = "Err"

\* What does hold of pid: the same, for replies that are not a header cut
\* short (fewer than four characters, the first of them "4").
PidDecodesUnlessCutShort ==
    (pidPc = "ret" /\ pidReply.wr /\ pidReply.rd) =>
       LET s == pidReply.s
           digits == 2 * pidExpected.expected
           payload == SubSeq(s, 5, Len(s))
       IN /\ (/\ Len(s) = 4 + digits
              /\ s[1] = "4"
              /\ \A i \in 1..Len(payload) : HexValueOf(payload[i]) >= 0)
                => pidResult = Ok(U32(0, Encoded(payload, 0)))
          /\ (Len(s) # 4 + digits /\ ~(Len(s) < 4 /\ Len(s) > 0 /\ s[1] = "4"))
                => pidResult.kind = "Err"

-----------------------------------------------------------------------------
(* Properties of the pipeline when the OBD driver ends (under SpecLoss) *)

OthersForwarded ==
    \A p \in {"gps", "imu"} : FromProducer(p, forwarded) = FromProducer(p, received)

\* C13: once the OBD driver has terminated, the dispatcher, the persistence
\* engine and the GPS and IMU producers keep running: the dispatcher stops
\* only when the engine has stopped, the engine only on a file error, each of
\* them can take its next step, and every GPS and IMU event the dispatcher
\* has received has been forwarded.
C13_ObdLossIsConfined ==
    ~obdUp =>
       /\ pcBuf = "dead" => death \in {"create", "write"}
       /\ dispPc = "dead" => pcBuf = "dead"
       /\ dispPc # "dead" =>
             /\ OthersForwarded
             /\ rx # <<>> => ENABLED (DispatchStartup \/ DispatchMain)
             /\ clk <= MaxEvents => ENABLED Produce("gps") /\ ENABLED Produce("imu")
       /\ (pcBuf = "recv" /\ rxbuf # <<>>) => ENABLED BufRecv

C13_Witness ==
    /\ ~obdUp
    /\ sentBy["obd"] = <<>>
    /\ dispPc # "dead"
    /\ \E i \in 1..Len(forwarded) : forwarded[i].tag = "Gps"
    /\ \E i \in 1..Len(forwarded) : forwarded[i].tag = "Imu"
    /\ buf # <<>>

\* C14: once the OBD driver has ended and the dispatcher has taken every
\* event sent to it, some of them from the other producers, the dispatcher
\* is in its main display loop.
C14_DispatcherReachesMainLoop ==
    (~obdUp /\ rx = <<>> /\ dispPc # "dead" /\ received # <<>>) => dispPc = "main"

-----------------------------------------------------------------------------
(* Properties of the simulation mode (under SpecSim) *)

SimPids == { SimThreads[k].pid : k \in 1..Len(SimThreads) }

\* C12: in simulation mode the aggregate channel holds the trouble-code
\* terminator first and a MILSTAT sample second, so both come before every
\* sample of a simulator thread, however the simulator threads interleave.
C12_TerminatorAndMilstatFirst ==
    /\ Len(rx) >= 1 => (rx[1].pid = TROUBLE /\ rx[1].val = 0)
    /\ Len(rx) >= 2 => rx[2].pid = MILSTAT
    /\ \A i \in 1..Len(rx) : rx[i].pid \in SimPids => i >= 3

C12_Witness ==
    /\ Len(rx) = 4
    /\ rx[3].pid = RPM
    /\ rx[4].pid = BATTERY
    /\ drvPc = "simSpawn"

-----------------------------------------------------------------------------
(* Properties of the capability scan when a group request fails (under SpecScan) *)

\* The group request at base b was made and gave no word.
GroupFailed(b) == scanC > b /\ \A k \in 1..Len(words) : words[k].base # b

\* C17: when the bitmap request of a group fails, every capability bit of
\* that group keeps the value it had before the scan, unsupported, whatever
\* words were obtained for earlier groups of the same scan.
C17_FailedGroupKeepsDefault ==
    scanPc \in {"scan", "patch"} =>
       \A b \in GroupBases : GroupFailed(b) =>
          \A a \in (b + 1)..(b + GROUP - 1) : Assigned(a) => ~capa[a]

-----------------------------------------------------------------------------
(* Properties of the OBD driver's sessions (under SpecObd) *)

\* The states in which a session is inside mainloop.
InMainloop == drvPc \in {"battery", "check", "poll"}

\* C11: once a read of RPM has failed, the crash flag is set and stays set
\* until the next crash check of mainloop, whatever the reads in between
\* give.
C11_CrashKeptUntilCheck == (InMainloop /\ rpmFailed) => crash

\* The step is an emit call whose read of parameter p failed.
FailedRead(p) ==
    /\ drvPc \in {"milstat", "poll"}
    /\ lastIo'.step = "emit"
    /\ lastIo'.kind = "Err"
    /\ lastIo'.pid = p

\* C18: a failed read of a parameter other than RPM sends no event, leaves
\* the crash flag, the last RPM and the capability table as they were, and
\* polling goes on with the next parameter.
C18_FailedReadIgnored ==
    [][\A e \in {PollList[i] : i \in 1..Len(PollList)} \cup {PollEntry(MILSTAT, 4, FALSE)} :
          (e.pid # RPM /\ FailedRead(e.pid)) =>
              /\ stepSent' = <<>>
              /\ crash' = crash
              /\ rpm' = rpm
              /\ capa' = capa
              /\ drvPc' \in {"poll", "battery"}]_vars

\* C16: a session that ended is followed, after the cooldown, by a new
\* serial open, however many sessions ended before it.
C16_SessionEndReturnsToConnect ==
    [][drvPc = "cooldown" => drvPc' = "connect"]_vars

\* C19: a connection attempt begins with no capability, rpm 0 and no crash
\* flagged, and the table and bitmap word after its scan are those the scan
\* gives from a zero word and an empty table with this attempt's replies.
C19_SessionStartsFromScratch ==
    /\ drvPc \in {"configure", "scan"} =>
          /\ \A a \in DOMAIN capa : ~capa[a]
          /\ rpm = 0
          /\ ~crash
    /\ drvPc = "trouble" =>
          LET r == ScanRun(0, U32(0, 0), [a \in 0..(MAXPIDS - 1) |-> FALSE], <<>>,
                           lastIo.outcome)
          IN /\ cap = r.cap
             /\ capa = PatchRpm(r.capa)
             /\ rpm = 0
             /\ ~crash

\* A later attempt begins after a session that had capabilities, a running
\* engine and a flagged crash.
C19_Witness ==
    /\ drvPc = "configure"
    /\ try >= 2
    /\ ended = "crash"

\* C20: a mode-setting reply other than OK ends the attempt before the scan
\* with no event sent, and the driver goes back to the serial open.
C20_BadReplyRetriesFromConnect ==
    [][(/\ drvPc = "configure"
        /\ lastIo'.step = "configure"
        /\ \E i \in 1..NCONF : cmd(lastIo'.replies[i]) # StrOK) =>
           /\ stepSent' = <<>>
           /\ ~sentAny'
           /\ capa' = capa
           /\ drvPc' = "connect"]_vars

-----------------------------------------------------------------------------
(* Properties of the retry loops of the GPS thread (under SpecGpsLive) *)

\* The connects and reads that return an error are at most one per try.
GpsFailedAttemptsBounded == gpsFails <= GPS_MAXTRIES - 1

\* C15: no failing operation is retried for ever: a read loop that gets
\* nothing from the stream comes to an end.
C15_NoEndlessRetry == (gpsPc = "read" /\ NothingToRead) ~> (gpsPc # "read")

-----------------------------------------------------------------------------
(* Properties of the trouble-code query and the poll loop (under SpecObd) *)

\* C21: the trouble-code query of a session sends one TROUBLE event per
\* code above zero, in reply order, and then exactly one TROUBLE event with
\* val 0, all before the first polled value.
C21_TroubleListEndsWithMarker ==
    drvPc = "milstat" =>
        /\ stepSent # <<>>
        /\ stepSent[Len(stepSent)] = Obd(clk, TROUBLE, 0)
        /\ \A i \in 1..(Len(stepSent) - 1) :
              stepSent[i].pid = TROUBLE /\ stepSent[i].val > 0

PidsOf(group) == [i \in 1..Len(group) |-> group[i].pid]

\* The order of one iteration: the basic parameters before each other group.
BasicOrder == <<RPM, THROT, ELOAD, SPEED>>
IterationOrder ==
    BasicOrder \o PidsOf(temppids) \o BasicOrder \o PidsOf(fuelpids)
    \o BasicOrder \o PidsOf(extrapids) \o BasicOrder \o PidsOf(catapids)
    \o BasicOrder \o PidsOf(infopids)

\* C22: every step of the poll loop deals with the parameter that is next in
\* the order basic, temperature/EGR, basic, fuel, basic, extended, basic,
\* catalyst, basic, info, and the iteration ends after the info group.
C22_BasicBeforeEachGroup ==
    [][(drvPc = "poll" /\ drvPc' # "dead") =>
          /\ pollPos \in 1..Len(IterationOrder)
          /\ lastIo'.pid = IterationOrder[pollPos]
          /\ IF pollPos < Len(IterationOrder)
             THEN drvPc' = "poll" /\ pollPos' = pollPos + 1
             ELSE drvPc' = "battery"]_vars

\* The fuel group is about to be polled with the engine running, right
\* after the speed read of the second basic group.
C22_Witness ==
    /\ drvPc = "poll"
    /\ pollPos = 14
    /\ PollList[pollPos].pid = FUEL
    /\ lastIo.step = "emit"
    /\ lastIo.pid = SPEED
    /\ rpm > 0

\* C23: a parameter of the temperature/EGR, fuel, extended, catalyst and
\* info groups is queried only while the last RPM read is above zero.
C23_GroupsOnlyWhileRunning ==
    [][(/\ drvPc = "poll"
        /\ lastIo'.step = "emit"
        /\ \A i \in 1..Len(BasicOrder) : lastIo'.pid # BasicOrder[i]) => rpm > 0]_vars

\* C24: the head of an iteration reads the battery voltage exactly when the
\* number of iterations before it in the session is a multiple of 5; a
\* successful read sends one BATTERY event, and no read sends none.
C24_BatteryEveryFifth ==
    [][drvPc = "battery" =>
          /\ (lastIo'.step = "battery") <=> (iter % 5 = 0)
          /\ (lastIo'.step = "battery" /\ lastIo'.kind = "Ok") =>
                (Len(stepSent') = 1 /\ stepSent'[1].pid = BATTERY)
          /\ (lastIo'.step # "battery" \/ lastIo'.kind # "Ok") => stepSent' = <<>>]_vars

\* The battery was read at the head of the sixth iteration.
C24_Witness ==
    /\ drvPc = "check"
    /\ iter = 6
    /\ lastIo.step = "battery"
    /\ lastIo.kind = "Ok"
    /\ stepSent = <<Obd(clk, BATTERY, 126)>>

\* C25: an emit call writes a command only for a parameter whose entry of
\* the capability table is true; for any other it sends no command and no
\* event and changes nothing of the session.
C25_OnlyCapableQueried ==
    [][(drvPc = "milstat" \/ drvPc = "poll") =>
          (LET p == IF drvPc = "milstat" THEN MILSTAT ELSE IterationOrder[pollPos]
           IN /\ lastIo'.step = "emit" => capa[p]
              /\ ~capa[p] =>
                    (/\ lastIo'.step = "skip"
                     /\ stepSent' = <<>>
                     /\ crash' = crash
                     /\ rpm' = rpm
                     /\ capa' = capa
                     /\ cap' = cap
                     /\ sentAny' = sentAny
                     /\ drvPc' # "dead"))]_vars

\* The throttle read was passed over in a session whose scan got no bitmap.
C25_Witness ==
    /\ drvPc = "poll"
    /\ lastIo.step = "skip"
    /\ lastIo.kind = "capa"
    /\ lastIo.pid = THROT
    /\ ~capa[THROT]
    /\ capa[RPM]

-----------------------------------------------------------------------------
(* Properties of replies without the "4" header (under SpecObd) *)

\* The step is an emit call that got a reply not starting with "4".
NoPrefixEmit ==
    /\ drvPc = "milstat" \/ drvPc = "poll"
    /\ lastIo'.step = "emit"
    /\ lastIo'.reply = "noprefix"

\* The step is a capability scan in which some group request got a reply
\* not starting with "4".
NoPrefixScan ==
    /\ drvPc = "scan"
    /\ \E b \in GroupBases : ReplyClass(lastIo'.outcome[b]) = "noprefix"

-----------------------------------------------------------------------------
(* Properties of the scaling of polled values (under SpecScale) *)

\* The raw value the reply carries after its four header characters.
RawOf(io) == HexNum(SubSeq(io.s, 5, Len(io.s)))

\* C27 as stated: the RPM event carries the raw value times 1.5, truncated.
C27_RpmIsRawTimesOneAndHalf ==
    (pidPc = "ret" /\ pidExpected.pidno = RPM) =>
        stepSent = <<Obd(clk, RPM, (3 * RawOf(pidReply)) \div 2)>>

\* C27 amended: the RPM event carries the raw value times 2.5, truncated,
\* and so does the session's last RPM.
C27_RpmIsRawTimesTwoAndHalf ==
    (pidPc = "ret" /\ pidExpected.pidno = RPM) =>
        /\ stepSent = <<Obd(clk, RPM, (5 * RawOf(pidReply)) \div 2)>>
        /\ rpm = (5 * RawOf(pidReply)) \div 2
        /\ drvPc = "poll"

\* The largest and odd raw value 0xFFFF was read and sent as 163837.
C27_Witness ==
    /\ pidPc = "ret"
    /\ pidExpected.pidno = RPM
    /\ RawOf(pidReply) = 65535
    /\ stepSent = <<Obd(clk, RPM, 163837)>>

\* C28: a temperature read of any raw byte sends (raw - 40) * 10, and the
\* driver goes on.
C28_TemperatureNeverAborts ==
    (pidPc = "ret" /\ pidExpected.pidno \in {AIRTEMP, ECTEMP}) =>
        /\ drvPc = "poll"
        /\ stepSent = <<Obd(clk, pidExpected.pidno, (RawOf(pidReply) - 40) * 10)>>

-----------------------------------------------------------------------------
(* Properties of a late flush and of the file creation (under Spec) *)

\* C29: the flush that follows missed boundaries is a single one: it moves
\* the boundary by whole intervals to the first value above the elapsed
\* time read, nothing else moves the boundary, and a flush begins only from
\* the receive loop once the elapsed time has reached the boundary.
C29_LateFlushOneBoundary ==
    [][/\ (pcBuf = "write" /\ pcBuf' = "rename") =>
             /\ elaps' > now'
             /\ elaps' - SECONDS <= now'
             /\ elaps' > elaps
             /\ (elaps' - elaps) % SECONDS = 0
             /\ Len(files') = Len(files)
       /\ (pcBuf # "create" /\ pcBuf' = "create") =>
             /\ pcBuf = "recv"
             /\ now' >= elaps
       /\ ~(pcBuf = "write" /\ pcBuf' = "rename") => elaps' = elaps]_vars

\* One flush, begun after two boundaries had passed, has moved the boundary
\* by two intervals and left one file.
C29_Witness ==
    /\ pcBuf = "recv"
    /\ Len(files) = 1
    /\ flushAt >= 2 * SECONDS
    /\ elaps = 3 * SECONDS
    /\ bufRecvd = <<>>

\* C30: the attempts to create the file of a flush are numbered from the
\* timestamp of the latest event of the batch, one up per failed attempt;
\* a created file is empty and is written next; the sixth failure in a row
\* ends the engine, which then writes, renames, syncs and notifies nothing.
C30_CreateRetriesThenTerminates ==
    /\ [](death = "create" => (pcBuf = "dead" /\ tries = 6))
    /\ [][/\ pcBuf = "create" =>
                /\ tries' = tries + 1
                /\ buf' = buf
                /\ files' # files =>
                      /\ files' = Append(files, [sec |-> lastc, tmp |-> TRUE, data |-> <<>>,
                                                 uniq |-> buf[Len(buf)].t + tries])
                      /\ pcBuf' = "write"
                /\ files' = files =>
                      IF tries + 1 < 6 THEN pcBuf' = "create"
                      ELSE pcBuf' = "dead" /\ death' = "create"
          /\ pcBuf = "dead" => UNCHANGED <<pcBuf, files, synced, buf, lastRename>>]_bufVars

\* The engine has ended on the sixth failed creation of its first file.
C30_Witness ==
    /\ death = "create"
    /\ pcBuf = "dead"
    /\ tries = 6
    /\ files = <<>>
    /\ buf # <<>>
    /\ synced = 0

-----------------------------------------------------------------------------
(* The steps of a flush and its sync notices (buffer.rs, lines 44-125) *)

IsUsr(e) == e.tag = "Usr"

\* Every UserNotice put on the aggregate channel so far, in sending order:
\* what the dispatcher has taken from it, then what is still queued.
UsrSent == SelectSeq(received \o rx, IsUsr)

\* The engine's control flow: from a position to the next one.
FlushSteps ==
    {<<"recv", "create">>, <<"create", "write">>, <<"write", "rename">>,
     <<"rename", "sync">>, <<"sync", "unnotify">>, <<"unnotify", "recv">>,
     <<"create", "dead">>, <<"write", "dead">>}

\* C31: within one flush the steps are create, serialize and clear, rename,
\* sync, notice synced=true, delay, notice synced=false, in this order; a
\* notice is sent only after the sync of its flush, and the notices ever sent
\* alternate true, false, one pair per completed flush.
C31_FlushStepOrder ==
    /\ [](/\ \A i \in 1..Len(UsrSent) : UsrSent[i].synced = (i % 2 = 1)
          /\ Len(UsrSent) = 2 * synced - (IF pcBuf = "unnotify" THEN 1 ELSE 0))
    /\ [][(/\ pcBuf' # pcBuf => <<pcBuf, pcBuf'>> \in FlushSteps
           /\ (pcBuf = "create" /\ pcBuf' = "write") =>
                 /\ Len(files') = Len(files) + 1
                 /\ files'[Len(files')].tmp
                 /\ files'[Len(files')].data = <<>>
                 /\ buf' = buf
           /\ (pcBuf = "write" /\ pcBuf' = "rename") =>
                 /\ files'[Len(files)].data = SerializeAll(buf, padByte)
                 /\ files'[Len(files)].tmp
                 /\ buf' = <<>>
           /\ (pcBuf = "rename" /\ pcBuf' = "sync") =>
                 /\ buf' = buf
                 /\ synced' = synced
                 /\ lastRename' = "ok" => ~files'[Len(files)].tmp
           /\ synced' # synced =>
                 /\ pcBuf = "sync"
                 /\ synced' = synced + 1
                 /\ UsrSent' = Append(UsrSent, Usr(TRUE))
           /\ UsrSent' # UsrSent =>
                 \/ pcBuf = "sync" /\ synced' = synced + 1
                 \/ /\ pcBuf = "unnotify"
                    /\ pcBuf' = "recv"
                    /\ UsrSent' = Append(UsrSent, Usr(FALSE)))]_vars

\* A flush has run to its end: one pair of notices, the synced one first.
C31_Witness ==
    /\ pcBuf = "recv"
    /\ synced = 1
    /\ Len(files) = 1
    /\ ~files[1].tmp
    /\ UsrSent = <<Usr(TRUE), Usr(FALSE)>>

-----------------------------------------------------------------------------
(* Properties of one serial command (under SpecReplyLive) *)

\* C32: every command that waits for a reply returns, whatever the device
\* sends or fails to send.
C32_EveryCommandReturns == (replyPc = "read") ~> (replyPc = "ret")

-----------------------------------------------------------------------------
(* Properties of the GPS thread's read loop (under SpecFlow) *)

\* The complete lines of a byte sequence, each without its terminator.
RECURSIVE LinesOf(_)
LinesOf(s) ==
    LET idx == FirstNewline(s, 0) IN
    IF idx = 0 THEN <<>>
    ELSE <<SubSeq(s, 1, idx - 1)>> \o LinesOf(SubSeq(s, idx + 1, Len(s)))

\* For each complete TPV line of s, in order, the fields emit should be given.
TpvFields(s) ==
    LET tpv == SelectSeq(LinesOf(s), StartsWithTpv)
    IN [i \in 1..Len(tpv) |-> SubSeq(tpv[i], 2, Len(tpv[i]))]

\* C33: whatever the split of the stream into read chunks, emit has been
\* called once for each complete TPV line received, with that line's fields,
\* and for nothing else; each call sends a GpsTime and then a Position.
C33_OnePairPerTpvLine ==
    /\ flowEmitted = TpvFields(flowGot)
    /\ lastIo.kind = "tpv" =>
          /\ Len(stepSent) = 2
          /\ stepSent[1].tag = "Gps"
          /\ stepSent[2].tag = "Pos"
    /\ lastIo.kind \in {"part", "line"} => stepSent = <<>>

-----------------------------------------------------------------------------
(* Capability table indexing (under SpecObd) *)

\* C34: every index used on the capability table is below MAXPIDS: the
\* entry ScanIndex(c) written by each iteration c of the scan, the RPM entry
\* patched after it, and the entry read by every emit of the poll loop.
C34_CapaIndexInBounds ==
    /\ DOMAIN capa = 0..(MAXPIDS - 1)
    /\ \A c \in ScanIterations : ScanIndex(c) \in DOMAIN capa
    /\ RPM \in DOMAIN capa
    /\ lastIo.step = "emit" => lastIo.pid \in DOMAIN capa

\* The scan has written the last entry of the table, and the poll loop has
\* just read the entry of the highest address it asks for.
C34_Witness ==
    /\ drvPc = "poll"
    /\ capa[ScanIndex(MAXPIDS - 2)]
    /\ ScanIndex(MAXPIDS - 2) = MAXPIDS - 1
    /\ lastIo.step = "emit"
    /\ \A i \in DOMAIN PollList : PollList[i].pid <= lastIo.pid

-----------------------------------------------------------------------------
(* The end of the persistence engine, seen from the dispatcher (under Spec) *)

\* The event that ends the startup loop: it is dropped, not forwarded.
EndsStartup(e) == e.tag = "Obd" /\ e.pid = TROUBLE /\ e.val = 0

\* C35: once the persistence engine has terminated, on the creation retries
\* or on a write error, the first event the dispatcher tries to forward
\* ends the dispatcher too; nothing is put on the persistence channel any
\* more, and the dispatcher ends for no other reason.
C35_EngineDeathEndsDispatcher ==
    /\ [](dispPc = "dead" => (pcBuf = "dead" /\ death \in {"create", "write"}))
    /\ [][((pcBuf = "dead" /\ received' # received) =>
              /\ forwarded' = forwarded
              /\ rxbuf' = rxbuf
              /\ \/ dispPc' = "dead"
                 \/ dispPc = "startup" /\ EndsStartup(Head(rx)) /\ dispPc' = "main")]_vars

\* The engine ended on its sixth failed creation, and the dispatcher on the
\* event it took next.
C35_Witness ==
    /\ death = "create"
    /\ dispPc = "dead"
    /\ received # <<>>
    /\ Len(forwarded) < Len(received)

-----------------------------------------------------------------------------
(* A dongle that has stopped answering (under SpecObd) *)

\* C36: in the poll loop a read that fails neither blocks nor ends the thread:
\* the loop goes on to its next step; the battery read comes round at the
\* head of every fifth iteration, and a battery read that fails ends the
\* session there, whatever the crash flag holds.  So once every read fails
\* the session is left within five iterations.
C36_SilentDongleDetected ==
    /\ []((drvPc = "battery" \/ drvPc = "check" \/ drvPc = "poll") =>
             batwait = iter % 5)
    /\ [][(/\ drvPc = "poll" /\ lastIo'.step = "emit" /\ lastIo'.reply = "none" =>
                /\ drvPc' = "poll" \/ drvPc' = "battery"
                /\ obdUp' = obdUp
                /\ stepSent' = <<>>
           /\ drvPc = "battery" =>
                /\ batwait = 0 => lastIo'.step = "battery"
                /\ (lastIo'.step = "battery" /\ lastIo'.kind # "Ok") =>
                      /\ drvPc' = "cooldown"
                      /\ ended' = "battery"
                      /\ stepSent' = <<>>
           /\ (drvPc = "check" /\ crash) => drvPc' = "cooldown")]_vars

\* The RPM read of the fifth iteration failed, a later failed read cleared the
\* crash flag, and the battery read at the head of the sixth iteration ended
\* the session.
C36_Witness ==
    /\ drvPc = "cooldown"
    /\ ended = "battery"
    /\ iter = 6
    /\ rpmFailed
    /\ ~crash
    /\ lastIo.step = "battery"
    /\ lastIo.kind = "Err"

-----------------------------------------------------------------------------
(* Each event is written once (under Spec) *)

\* The records of all the files written so far, in file order.
Written == ReplayFiles(files)

NoDuplicates(q) == \A i, j \in 1..Len(q) : i # j => q[i] # q[j]

-----------------------------------------------------------------------------
(* What starts a flush (under Spec) *)

LastOf(q) == q[Len(q)]

-----------------------------------------------------------------------------
(* The way of the sync notices (under Spec) *)

\* Flushes that have sent both their notices.
CompletedFlushes == IF pcBuf = "unnotify" THEN synced - 1 ELSE synced

\* C39: a notice the dispatcher takes is put on the persistence channel like
\* any event; the engine takes it off and goes back to waiting, with the
\* batch, the boundary, the files and the aggregate channel left as they
\* were; so the notices ever sent are two for each completed flush, and the
\* first notice of a flush that is waiting to send its second.
C39_NoticesDoNotFeedBack ==
    /\ [](Len(UsrSent) = 2 * CompletedFlushes + (IF pcBuf = "unnotify" THEN 1 ELSE 0))
    /\ [][(/\ (received' # received /\ IsUsr(Head(rx)) /\ pcBuf # "dead") =>
                /\ rxbuf' = Append(rxbuf, Head(rx))
                /\ forwarded' = Append(forwarded, Head(rx))
                /\ UsrSent' = UsrSent
           /\ (pcBuf = "recv" /\ bufRecvd' # bufRecvd /\ IsUsr(Head(rxbuf))) =>
                /\ rxbuf' = Tail(rxbuf)
                /\ pcBuf' = "recv"
                /\ buf' = buf
                /\ appended' = appended
                /\ elaps' = elaps
                /\ files' = files
                /\ synced' = synced
                /\ rx' = rx)]_vars

\* Both notices of a flush have gone round: sent, forwarded, taken by the
\* engine and dropped, with nothing left on either channel.
C39_Witness ==
    /\ pcBuf = "recv"
    /\ synced = 1
    /\ rx = <<>>
    /\ rxbuf = <<>>
    /\ SelectSeq(bufRecvd, IsUsr) = <<Usr(TRUE), Usr(FALSE)>>
    /\ SelectSeq(forwarded, IsUsr) = <<Usr(TRUE), Usr(FALSE)>>
    /\ buf = <<>>

-----------------------------------------------------------------------------
(* The flush boundary counter (under Spec) *)

\* C40: elaps is always a positive multiple of SECONDS; it is SECONDS until
\* the first flush has written its file; it changes only in the step of a
\* flush that follows the write, and there it grows.
C40_BoundaryIsMultipleOfInterval ==
    /\ [](/\ elaps > 0
          /\ elaps % SECONDS = 0
          /\ files = <<>> => elaps = SECONDS)
    /\ [][(/\ elaps' # elaps => (pcBuf = "write" /\ pcBuf' = "rename")
           /\ (pcBuf = "write" /\ pcBuf' = "rename") =>
                /\ elaps' >= elaps + SECONDS
                /\ elaps' % SECONDS = 0)]_vars

\* Two flushes have moved the boundary from 60 to 120 and then to 180.
C40_Witness ==
    /\ pcBuf = "recv"
    /\ Len(files) = 2
    /\ prevFlushAt >= SECONDS
    /\ elaps = 3 * SECONDS

====
